---- MODULE Spec2Model ----
(***************************************************************************)
(* Wildfire analysis system (QUESST): the cleaning / validation engine.    *)
(*                                                                         *)
(*   wildfires/validators.py     validate_coordinates, validate_dates,     *)
(*                               validate_numeric_columns                  *)
(*   wildfires/data_manager.py   DataManager.clean_data, _assign_states    *)
(*   fire_visualizer.py          FireVisualizer.load_data                  *)
(*   preprocess_fire_data.py     FireDataPreprocessor.validate_data,       *)
(*                               process_file, process_data                *)
(*                                                                         *)
(* A table (pandas DataFrame) is a record [columns, rows]; a row is a      *)
(* record from column names to cells; a cell is a record [kind, val].      *)
(* Measurements are integers: pandas' linear-interpolation quantiles of    *)
(* small integers are exact multiples of 1/4, so every quantile is kept    *)
(* multiplied by 4 (and the 99th percentile by 100) and the comparisons    *)
(* are done on the scaled integers.                                        *)
(***************************************************************************)
EXTENDS Integers, Sequences, FiniteSets, TLC

VARIABLES
    disk,            \* the files under data_dir and cache_dir
    raw_data,        \* DataManager.raw_data: None or a table
    processed_data,  \* DataManager.processed_data: None or a table
    states_gdf,      \* DataManager.states_gdf: None or "loaded"
    dm_exc,          \* exception raised by the last DataManager call, or "none"
    arg,             \* the table handed to a validator function
    ret,             \* what the last validator call returned
    trail,           \* the calls whose output arg is
    fv_data,         \* fire_visualizer.FireVisualizer.data: None or a table
    files,           \* FireDataPreprocessor: the CSV files under nasa_data_dir
    stats,           \* FireDataPreprocessor.stats
    pre_ret,         \* what the last process_data call returned / raised
    numpy_raises,    \* whether this numpy raises on the percentile of no data
    vis,             \* wildfires.visualizer.FireVisualizer: what create_visualization built
    rng42,           \* the order in which RandomState(42) reaches the positions of a group
    nifc,            \* vis.NIFCDataConnector: a get_historic_fires call and its server
    fvis,            \* the FireVisualizer objects: their intensity and area statistics
    threads          \* the concurrent create_visualization calls on these objects

vars == <<disk, raw_data, processed_data, states_gdf, dm_exc, arg, ret, trail,
          fv_data, files, stats, pre_ret, numpy_raises, vis, rng42,
          nifc, fvis, threads>>

----------------------------------------------------------------------------
(* Bounds of the model. *)

MaxRows == 5
MaxVal == 2
MaxFiles == 2
MaxRuns == 2

----------------------------------------------------------------------------
(* Cells. *)

None == [kind |-> "None", val |-> 0]
NaN == [kind |-> "nan", val |-> 0]
Num(v) == [kind |-> "num", val |-> v]
\* text that holds a number, e.g. "2"
Txt(v) == [kind |-> "txt", val |-> v]
\* text that holds neither a number nor a date, e.g. "abc"
Str == [kind |-> "str", val |-> 0]
\* a date <<year, month, day>>
Date(d) == [kind |-> "date", val |-> d]
Label(s) == [kind |-> "label", val |-> s]

IsNum(c) == c.kind = "num"
notna(c) == c.kind # "nan"

\* comparisons of a cell with a number: False on a missing value
Ge(c, n) == IsNum(c) /\ c.val >= n
Le(c, n) == IsNum(c) /\ c.val <= n
Gt(c, n) == IsNum(c) /\ c.val > n

\* datetime <= other, on <<year, month, day>>
DateLe(a, b) ==
    \/ a[1] < b[1]
    \/ a[1] = b[1] /\ a[2] < b[2]
    \/ a[1] = b[1] /\ a[2] = b[2] /\ a[3] <= b[3]

\* pd.Timestamp.now(): the processing time
Now == <<2024, 6, 15>>

----------------------------------------------------------------------------
(* Configuration. *)

South == 25
North == 70
West == -170
East == -50

SeasonOf(m) ==
    IF m \in {12, 1, 2} THEN "Winter"
    ELSE IF m \in {3, 4, 5} THEN "Spring"
    ELSE IF m \in {6, 7, 8} THEN "Summer"
    ELSE IF m \in {9, 10, 11} THEN "Fall"
    ELSE "StopIteration"

----------------------------------------------------------------------------
(* Tables. *)

Table(cols, rows) == [columns |-> cols, rows |-> rows]

\* F(e), with e evaluated once: a local variable assigned e
With(e, F(_)) == CHOOSE y \in {F(x) : x \in {e}} : TRUE

len(df) == Len(df.rows)

\* df[mask]
Filter(df, Keep(_)) == [df EXCEPT !.rows = SelectSeq(df.rows, Keep)]

\* df[c] = f(row)
Assign(df, c, F(_)) ==
    [columns |-> df.columns \cup {c},
     rows |-> [i \in 1..Len(df.rows) |-> (c :> F(df.rows[i])) @@ df.rows[i]]]

\* the numeric values of column c, in row order (NaN skipped)
Values(df, c) ==
    LET num == SelectSeq(df.rows, LAMBDA r : IsNum(r[c]))
    IN  [i \in 1..Len(num) |-> num[i][c].val]

\* pd.to_numeric(x, errors='coerce')
to_numeric(c) ==
    IF c.kind = "num" THEN c
    ELSE IF c.kind = "txt" THEN Num(c.val)
    ELSE NaN

\* pd.to_datetime(x, errors='coerce'): NaT is NaN
to_datetime(c) == IF c.kind = "date" THEN c ELSE NaN

----------------------------------------------------------------------------
(* Series.quantile(q), linear interpolation, times 4, for q = k/4. *)

Insert(s, v) ==
    LET k == Cardinality({i \in 1..Len(s) : s[i] <= v})
    IN  SubSeq(s, 1, k) \o <<v>> \o SubSeq(s, k + 1, Len(s))

RECURSIVE Sort(_)
Sort(s) == IF s = <<>> THEN <<>> ELSE Insert(Sort(Tail(s)), Head(s))

\* the quantile without interpolation: the value at the floor of the position
Quantile4_lower(vals, k) ==
    LET s == Sort(vals)
        pos == (Len(s) - 1) * k
    IN  4 * s[(pos \div 4) + 1]

\* s is not empty
Quantile4(vals, k) ==
    LET s == Sort(vals)
        pos == (Len(s) - 1) * k
        lo == pos \div 4
        r == pos % 4
        hi == IF r = 0 THEN lo ELSE lo + 1
    IN  4 * s[lo + 1] + r * (s[hi + 1] - s[lo + 1])

\* (x >= Q1 - 1.5 * IQR) & (x <= Q3 + 1.5 * IQR), with Q1, Q3 of vals;
\* the quantiles of no values are NaN and every comparison is False
InIQRRange(c, vals) ==
    /\ IsNum(c)
    /\ vals # <<>>
    /\ LET Q1 == Quantile4(vals, 1)
           Q3 == Quantile4(vals, 3)
           IQR == Q3 - Q1
       IN  /\ 8 * c.val >= 2 * Q1 - 3 * IQR
           /\ 8 * c.val <= 2 * Q3 + 3 * IQR

\* the outlier filter of one column
IQRFilter(df, col) ==
    LET vals == Values(df, col)
    IN  Filter(df, LAMBDA r : InIQRRange(r[col], vals))

----------------------------------------------------------------------------
(* wildfires/validators.py *)

\* a call's result: the exception raised ("none" when it returned), the
\* returned table, the returned counters, and the caller's table afterwards
Returned(df, st, caller) ==
    [exc |-> "none", df |-> df, stats |-> st, caller |-> caller]
Raised(e, caller) ==
    [exc |-> e, df |-> None, stats |-> None, caller |-> caller]

\* out_of_bounds counted from original_rows alone
validate_coordinates_recount(df) ==
    IF ~({"LATITUDE", "LONGITUDE"} \subseteq df.columns) THEN Raised("KeyError", df)
    ELSE
    LET original_rows == len(df)
        df1 == Filter(df, LAMBDA r : notna(r.LATITUDE) /\ notna(r.LONGITUDE))
        df2 == Filter(df1, LAMBDA r :
                   /\ Ge(r.LATITUDE, South)
                   /\ Le(r.LATITUDE, North)
                   /\ Ge(r.LONGITUDE, West)
                   /\ Le(r.LONGITUDE, East))
    IN  Returned(df2,
                 [original_rows |-> original_rows,
                  missing_coordinates |-> original_rows - len(df1),
                  out_of_bounds |-> original_rows - len(df2)],
                 df)

validate_coordinates(df) ==
    IF ~({"LATITUDE", "LONGITUDE"} \subseteq df.columns) THEN Raised("KeyError", df)
    ELSE
    LET original_rows == len(df)
        df1 == Filter(df, LAMBDA r : notna(r.LATITUDE) /\ notna(r.LONGITUDE))
        missing_coordinates == original_rows - len(df1)
        df2 == Filter(df1, LAMBDA r :
                   /\ Ge(r.LATITUDE, South)
                   /\ Le(r.LATITUDE, North)
                   /\ Ge(r.LONGITUDE, West)
                   /\ Le(r.LONGITUDE, East))
        out_of_bounds == original_rows - missing_coordinates - len(df2)
    IN  Returned(df2,
                 [original_rows |-> original_rows,
                  missing_coordinates |-> missing_coordinates,
                  out_of_bounds |-> out_of_bounds],
                 df)

\* the columns whose non-positive values are dropped
PositiveCols == {"BRIGHTNESS", "SCAN", "TRACK"}

\* one pass of the loop body of validate_numeric_columns.  acc.df is the
\* local df, acc.caller the caller's table, acc.own whether df is still the
\* caller's object, acc.seen[col] the population whose Q1 and Q3 were taken
\* for col (None when the column was skipped)
VncStep(acc, col) ==
    IF col \notin acc.df.columns THEN acc
    ELSE
    LET d0 == Assign(acc.df, col, LAMBDA r : to_numeric(r[col]))
        d1 == Filter(d0, LAMBDA r : notna(r[col]))
        original_rows == acc.stats[col].original_rows
        missing_values == original_rows - len(d1)
        positive == col \in PositiveCols
        d2 == IF positive THEN Filter(d1, LAMBDA r : Gt(r[col], 0)) ELSE d1
        negative_values == original_rows - missing_values - len(d2)
        d3 == IQRFilter(d2, col)
        outliers == original_rows - missing_values
                        - (IF positive THEN negative_values ELSE 0) - len(d3)
        st == IF positive
              THEN [original_rows |-> original_rows,
                    missing_values |-> missing_values,
                    negative_values |-> negative_values,
                    outliers |-> outliers]
              ELSE [original_rows |-> original_rows,
                    missing_values |-> missing_values,
                    outliers |-> outliers]
    IN  [df |-> d3,
         stats |-> [acc.stats EXCEPT ![col] = st],
         seen |-> [acc.seen EXCEPT ![col] = d2],
         caller |-> IF acc.own THEN d0 ELSE acc.caller,
         own |-> FALSE]

RECURSIVE VncLoop(_, _)
VncLoop(acc, columns) ==
    IF columns = <<>> THEN acc
    ELSE VncLoop(VncStep(acc, Head(columns)), Tail(columns))

Range(s) == {s[i] : i \in 1..Len(s)}

validate_numeric_columns(df, columns) ==
    LET start == [df |-> df,
                  stats |-> [c \in Range(columns) |-> [original_rows |-> len(df)]],
                  seen |-> [c \in Range(columns) |-> None],
                  caller |-> df,
                  own |-> TRUE]
        end == VncLoop(start, columns)
    IN  [exc |-> "none", df |-> end.df, stats |-> end.stats,
         caller |-> end.caller, seen |-> end.seen]

\* COLUMNS['required']
RequiredCols == <<"LATITUDE", "LONGITUDE", "BRIGHTNESS", "SCAN", "TRACK", "ACQ_DATE">>

\* validate_required_columns(df): (validation result, missing columns)
validate_required_columns(df) ==
    LET missing_columns == SelectSeq(RequiredCols, LAMBDA col : col \notin df.columns)
    IN  [exc |-> "none", df |-> None, stats |-> None, caller |-> df,
         ok |-> Len(missing_columns) = 0, missing |-> missing_columns]

validate_dates(df) ==
    IF "ACQ_DATE" \notin df.columns THEN Raised("KeyError", df)
    ELSE
    LET original_rows == len(df)
        d0 == Assign(df, "datetime", LAMBDA r : to_datetime(r.ACQ_DATE))
        d1 == Filter(d0, LAMBDA r : notna(r.datetime))
        invalid_dates == original_rows - len(d1)
        d2 == Filter(d1, LAMBDA r : DateLe(r.datetime.val, Now))
        future_dates == original_rows - invalid_dates - len(d2)
    IN  Returned(d2,
                 [original_rows |-> original_rows,
                  invalid_dates |-> invalid_dates,
                  future_dates |-> future_dates],
                 d0)

----------------------------------------------------------------------------
(* wildfires/data_manager.py *)

RECURSIVE Sum(_)
Sum(s) == IF s = <<>> THEN 0 ELSE Head(s) + Sum(Tail(s))

\* (x - mean) / std over the values vals (std with ddof = 1), kept exact as
\* the triple dev = n*x - sum, ss = sum of the squared dev, n:
\* intensity = dev * sqrt(n - 1) / sqrt(ss).  The std of one value is NaN
\* and that of equal values is 0, so the quotient is NaN in both cases.
ZScore(x, vals) ==
    LET n == Len(vals)
        total == Sum(vals)
        ss == Sum([i \in 1..n |-> (n * vals[i] - total) * (n * vals[i] - total)])
    IN  IF n < 2 \/ ss = 0
        THEN [kind |-> "nan", val |-> 0, ss |-> 0, n |-> n]
        ELSE [kind |-> "z", val |-> n * x - total, ss |-> ss, n |-> n]

\* the region of us-states.json that holds a point, "" when none does
StateOf(lat, lon) ==
    IF lat >= 37 /\ lat <= 40 /\ lon >= -102 /\ lon <= -95 THEN "KS" ELSE ""

\* DataManager._assign_states
assign_states(df, gdf) ==
    IF gdf = None
    THEN Assign(df, "state", LAMBDA r : Label("Unknown"))
    ELSE Assign(df, "state", LAMBDA r :
             IF StateOf(r.LATITUDE.val, r.LONGITUDE.val) # ""
             THEN Label(StateOf(r.LATITUDE.val, r.LONGITUDE.val))
             ELSE NaN)

\* every column's bounds taken over the population before the loop
IQRLoop_simultaneous(df, columns) ==
    Filter(df, LAMBDA r :
        \A i \in 1..Len(columns) :
            InIQRRange(r[columns[i]], Values(df, columns[i])))

\* the IQR loop of clean_data: each column's filter narrows the population
RECURSIVE IQRLoop(_, _)
IQRLoop(df, columns) ==
    IF columns = <<>> THEN df
    ELSE IQRLoop(IQRFilter(df, Head(columns)), Tail(columns))

CriticalCols == <<"BRIGHTNESS", "SCAN", "TRACK">>

\* df.dropna(subset=columns)
dropna(df, columns) ==
    Filter(df, LAMBDA r : \A i \in 1..Len(columns) : notna(r[columns[i]]))

\* the mask without its test against the northern bound
InBounds_no_north(r) ==
    /\ Ge(r.LATITUDE, South)
    /\ Ge(r.LONGITUDE, West)
    /\ Le(r.LONGITUDE, East)
    /\ notna(r.LATITUDE)
    /\ notna(r.LONGITUDE)

\* the North America mask of clean_data
InBounds(r) ==
    /\ Ge(r.LATITUDE, South)
    /\ Le(r.LATITUDE, North)
    /\ Ge(r.LONGITUDE, West)
    /\ Le(r.LONGITUDE, East)
    /\ notna(r.LATITUDE)
    /\ notna(r.LONGITUDE)

\* rows in the order of their datetime (NaT last), equal keys in input order
InsertRow(s, r) ==
    LET k == Cardinality({i \in 1..Len(s) :
                 notna(s[i].datetime) /\
                 (notna(r.datetime) => DateLe(s[i].datetime.val, r.datetime.val))})
    IN  SubSeq(s, 1, k) \o <<r>> \o SubSeq(s, k + 1, Len(s))

RECURSIVE SortRows(_)
SortRows(s) ==
    IF s = <<>> THEN <<>>
    ELSE With(SortRows(SubSeq(s, 1, Len(s) - 1)),
              LAMBDA head : InsertRow(head, s[Len(s)]))

sort_values(df) == [df EXCEPT !.rows = SortRows(df.rows)]

\* the columns clean_data reads
CleanCols ==
    {"ACQ_DATE", "LATITUDE", "LONGITUDE", "BRIGHTNESS", "SCAN", "TRACK", "CONFIDENCE"}

\* the derived columns of clean_data, lines 180-182
Derived(df) ==
    LET brightness == Values(df, "BRIGHTNESS")
        d1 == Assign(df, "fire_area", LAMBDA r : Num(r.SCAN.val * r.TRACK.val))
    IN  Assign(d1, "intensity", LAMBDA r : ZScore(r.BRIGHTNESS.val, brightness))

\* DataManager.clean_data: [exc, df], df the new processed_data
clean_data(raw, gdf) ==
    IF raw = None THEN [exc |-> "ValueError", df |-> None]
    ELSE IF "ACQ_DATE" \notin raw.columns THEN [exc |-> "KeyError", df |-> None]
    ELSE IF \E i \in 1..len(raw) : raw.rows[i].ACQ_DATE.kind = "str"
    THEN [exc |-> "DateParseError", df |-> None]
    ELSE IF ~(CleanCols \subseteq raw.columns) THEN [exc |-> "KeyError", df |-> None]
    ELSE
    LET d1 == Assign(raw, "datetime", LAMBDA r : to_datetime(r.ACQ_DATE))
        d2 == Assign(d1, "year", LAMBDA r :
                  IF notna(r.datetime) THEN Num(r.datetime.val[1]) ELSE NaN)
        d3 == Assign(d2, "month", LAMBDA r :
                  IF notna(r.datetime) THEN Num(r.datetime.val[2]) ELSE NaN)
        d4 == Filter(d3, InBounds)
        d5 == Assign(d4, "BRIGHTNESS", LAMBDA r : to_numeric(r.BRIGHTNESS))
        d6 == Assign(d5, "SCAN", LAMBDA r : to_numeric(r.SCAN))
        d7 == Assign(d6, "TRACK", LAMBDA r : to_numeric(r.TRACK))
        d8 == Assign(d7, "CONFIDENCE", LAMBDA r : to_numeric(r.CONFIDENCE))
        d9 == dropna(d8, CriticalCols)
        d10 == IQRLoop(d9, CriticalCols)
        d11 == Derived(d10)
    IN  IF \E i \in 1..len(d11) : ~notna(d11.rows[i].month)
        THEN [exc |-> "StopIteration", df |-> None]
        ELSE
        LET d12 == Assign(d11, "season", LAMBDA r : Label(SeasonOf(r.month.val)))
            d13 == assign_states(d12, gdf)
        IN  [exc |-> "none", df |-> sort_values(d13)]

----------------------------------------------------------------------------
(* The input tables. *)

Row(lat, lon, date, b, s, t) ==
    [LATITUDE |-> lat, LONGITUDE |-> lon, ACQ_DATE |-> date,
     BRIGHTNESS |-> b, SCAN |-> s, TRACK |-> t, CONFIDENCE |-> Num(50)]

GoodLat == Num(40)
GoodLon == Num(-100)
GoodDate == Date(<<2023, 7, 4>>)
Future == Date(<<Now[1], Now[2], Now[3] + 1>>)

\* a valid detection
Good(b, s, t) == Row(GoodLat, GoodLon, GoodDate, Num(b), Num(s), Num(t))

\* valid rows, brightness and scan over 1..MaxVal
NumCat ==
    [i \in 1..(MaxVal * MaxVal) |->
        Good(((i - 1) \div MaxVal) + 1, ((i - 1) % MaxVal) + 1, 1)]

\* rows that differ from Good(1, 1, 1) in their coordinates
CoordCat ==
    << Row(NaN, GoodLon, GoodDate, Num(1), Num(1), Num(1)),
       Row(GoodLat, NaN, GoodDate, Num(1), Num(1), Num(1)),
       Row(Num(South - 1), GoodLon, GoodDate, Num(1), Num(1), Num(1)),
       Row(Num(South), Num(West), GoodDate, Num(1), Num(1), Num(1)),
       Row(Num(North), Num(East), GoodDate, Num(1), Num(1), Num(1)),
       Row(Num(North + 1), GoodLon, GoodDate, Num(1), Num(1), Num(1)),
       Row(GoodLat, Num(West - 1), GoodDate, Num(1), Num(1), Num(1)),
       Row(GoodLat, Num(East + 1), GoodDate, Num(1), Num(1), Num(1)) >>

\* ... in their acquisition date
DateCat ==
    << Row(GoodLat, GoodLon, NaN, Num(1), Num(1), Num(1)),
       Row(GoodLat, GoodLon, Str, Num(1), Num(1), Num(1)),
       Row(GoodLat, GoodLon, Date(Now), Num(1), Num(1), Num(1)),
       Row(GoodLat, GoodLon, Future, Num(1), Num(1), Num(1)),
       Row(GoodLat, GoodLon, Date(<<2023, 1, 10>>), Num(1), Num(1), Num(1)) >>

\* ... in their measurements
MeasureCat ==
    << Row(GoodLat, GoodLon, GoodDate, NaN, Num(1), Num(1)),
       Row(GoodLat, GoodLon, GoodDate, Str, Num(1), Num(1)),
       Row(GoodLat, GoodLon, GoodDate, Txt(2), Num(1), Num(1)),
       Row(GoodLat, GoodLon, GoodDate, Num(0), Num(1), Num(1)),
       Row(GoodLat, GoodLon, GoodDate, Num(-5), Num(1), Num(1)),
       Row(GoodLat, GoodLon, GoodDate, Num(1), NaN, Num(1)),
       Row(GoodLat, GoodLon, GoodDate, Num(1), Num(0), Num(1)),
       Row(GoodLat, GoodLon, GoodDate, Num(1), Num(1), NaN),
       Row(GoodLat, GoodLon, GoodDate, Num(1), Num(1), Num(-5)),
       Row(GoodLat, GoodLon, GoodDate, Num(1), Num(1), Num(2)),
       Row(GoodLat, GoodLon, GoodDate, Num(-5), NaN, Num(1)) >>

\* ... in two places
MixedCat ==
    << Row(Num(North + 1), GoodLon, NaN, Num(1), Num(1), Num(1)),
       Row(GoodLat, GoodLon, Future, Num(0), Num(1), Num(1)) >>

\* Good(1, 1, 1) and the rows that differ from it
DefectCat == <<Good(1, 1, 1)>> \o CoordCat \o DateCat \o MeasureCat \o MixedCat

\* valid rows and two rows that differ from them in scan and in track
WideCat ==
    NumCat \o << Row(GoodLat, GoodLon, GoodDate, Num(1), Num(0), Num(1)),
                 Row(GoodLat, GoodLon, GoodDate, Num(1), Num(1), Num(2)) >>

\* the non-decreasing sequences over 1..m of length at most n: the tables
\* over a catalogue of m rows, up to the order of their rows
RECURSIVE NonDec(_, _)
NonDec(m, n) ==
    IF n = 0 THEN {<<>>}
    ELSE LET shorter == NonDec(m, n - 1)
         IN  shorter \cup
             UNION {{Append(s, i) : i \in (IF s = <<>> THEN 1 ELSE s[Len(s)])..m} :
                    s \in {p \in shorter : Len(p) = n - 1}}

AllCols ==
    {"LATITUDE", "LONGITUDE", "ACQ_DATE", "BRIGHTNESS", "SCAN", "TRACK", "CONFIDENCE"}

TablesOver(cat, n) ==
    {Table(AllCols, [i \in 1..Len(ix) |-> cat[ix[i]]]) : ix \in NonDec(Len(cat), n)}

\* short tables with every kind of row, longer tables of measurements
InputTables ==
    TablesOver(DefectCat, MaxRows - 2) \cup TablesOver(WideCat, MaxRows)

\* table df without column c
Drop(df, c) ==
    [columns |-> df.columns \ {c},
     rows |-> [i \in 1..Len(df.rows) |->
                  [k \in (DOMAIN df.rows[i]) \ {c} |-> df.rows[i][k]]]]

\* short tables that lack one mandatory column
IncompleteTables ==
    {Drop(t, c) : t \in {u \in TablesOver(NumCat, MaxRows - 3) : len(u) > 0},
                  c \in Range(RequiredCols)}

----------------------------------------------------------------------------
(* DataManager *)

\* what the shapefiles under data_dir hold together; None when there is no
\* shapefile
Shapefiles == InputTables

InitPre ==
    /\ files = <<>>
    /\ stats = None
    /\ pre_ret = None
    /\ numpy_raises = FALSE
    /\ vis = None
    /\ nifc = None
    /\ fvis = None
    /\ threads = None
    /\ rng42 = <<>>

Init ==
    /\ \/ \E t \in Shapefiles, conf \in BOOLEAN :
              disk = [shapefiles |-> IF conf THEN t ELSE Drop(t, "CONFIDENCE"),
                      raw_cache |-> None]
       \/ disk = [shapefiles |-> None, raw_cache |-> None]
    /\ raw_data = None
    /\ processed_data = None
    /\ states_gdf \in {None, Label("loaded")}
    /\ dm_exc = "none"
    /\ arg = None
    /\ ret = None
    /\ trail = <<>>
    /\ fv_data = None
    /\ InitPre

\* DataManager.load_raw_data(force_reload)
DM_load_raw_data(force_reload) ==
    /\ IF ~force_reload /\ disk.raw_cache # None
       THEN /\ raw_data' = disk.raw_cache
            /\ dm_exc' = "none"
            /\ UNCHANGED disk
       ELSE IF disk.shapefiles = None
       THEN /\ dm_exc' = "FileNotFoundError"
            /\ UNCHANGED <<raw_data, disk>>
       ELSE /\ raw_data' = disk.shapefiles
            /\ disk' = [disk EXCEPT !.raw_cache = disk.shapefiles]
            /\ dm_exc' = "none"
    /\ UNCHANGED <<processed_data, states_gdf, arg, ret, trail, fv_data, files,
                   stats, pre_ret, numpy_raises, vis, rng42,
                   nifc, fvis, threads>>

\* DataManager.clean_data()
DM_clean_data ==
    /\ LET r == clean_data(raw_data, states_gdf)
       IN  /\ dm_exc' = r.exc
           /\ processed_data' = IF r.exc = "none" THEN r.df ELSE processed_data
    /\ UNCHANGED <<disk, raw_data, states_gdf, arg, ret, trail, fv_data, files,
                   stats, pre_ret, numpy_raises, vis, rng42,
                   nifc, fvis, threads>>

Next ==
    \/ \E force_reload \in BOOLEAN : DM_load_raw_data(force_reload)
    \/ DM_clean_data

Spec == Init /\ [][Next]_vars

----------------------------------------------------------------------------
(* fire_visualizer.py: FireVisualizer.load_data *)

\* the IQR loop of load_data; acc.seen[col] is the population whose Q1 and
\* Q3 were taken for col
RECURSIVE FvIQRLoop(_, _)
FvIQRLoop(acc, columns) ==
    IF columns = <<>> THEN acc
    ELSE LET col == Head(columns)
         IN  FvIQRLoop([df |-> IQRFilter(acc.df, col),
                        seen |-> [acc.seen EXCEPT ![col] = acc.df]],
                       Tail(columns))

\* to_numeric on the columns of cols that the table has
RECURSIVE CoerceCols(_, _)
CoerceCols(df, columns) ==
    IF columns = <<>> THEN df
    ELSE LET col == Head(columns)
         IN  CoerceCols(IF col \in df.columns
                        THEN Assign(df, col, LAMBDA r : to_numeric(r[col]))
                        ELSE df,
                        Tail(columns))

\* the cleaning of one shapefile's table gdf, lines 57-99, and the final sort
fv_clean(gdf) ==
    IF "ACQ_DATE" \notin gdf.columns THEN Raised("KeyError", gdf)
    ELSE IF \E i \in 1..len(gdf) : gdf.rows[i].ACQ_DATE.kind = "str"
    THEN Raised("DateParseError", gdf)
    ELSE IF ~({"LATITUDE", "LONGITUDE"} \subseteq gdf.columns)
    THEN Raised("KeyError", gdf)
    ELSE
    LET d1 == Assign(gdf, "datetime", LAMBDA r : to_datetime(r.ACQ_DATE))
        d2 == Assign(d1, "year", LAMBDA r :
                  IF notna(r.datetime) THEN Num(r.datetime.val[1]) ELSE NaN)
        d3 == Assign(d2, "month", LAMBDA r :
                  IF notna(r.datetime) THEN Num(r.datetime.val[2]) ELSE NaN)
        d4 == Filter(d3, InBounds)
        d5 == CoerceCols(d4, <<"BRIGHTNESS", "SCAN", "TRACK", "CONFIDENCE">>)
    IN  IF ~(Range(CriticalCols) \subseteq gdf.columns) THEN Raised("KeyError", d3)
        ELSE
        LET d6 == dropna(d5, CriticalCols)
            loop == FvIQRLoop([df |-> d6,
                               seen |-> [c \in Range(CriticalCols) |-> None]],
                              CriticalCols)
            d7 == Filter(loop.df, LAMBDA r :
                      Gt(r.BRIGHTNESS, 0) /\ Gt(r.SCAN, 0) /\ Gt(r.TRACK, 0))
        IN  [exc |-> "none", df |-> sort_values(d7), stats |-> None,
             caller |-> d3, seen |-> loop.seen]

----------------------------------------------------------------------------
(* The cleaning operations applied to one table. *)

CleanInit ==
    /\ arg \in InputTables \cup IncompleteTables
    /\ raw_data = arg
    /\ ret = None
    /\ trail = <<>>
    /\ disk = [checkpoint |-> None]
    /\ processed_data = None
    /\ states_gdf = None
    /\ dm_exc = "none"
    /\ fv_data = None
    /\ InitPre

\* a call f(arg): ret is what it returned, arg the caller's table afterwards
Idle == ret = None /\ processed_data = None /\ dm_exc = "none" /\ fv_data = None

Call(fn, r) ==
    /\ Idle
    /\ ret' = [fn |-> fn] @@ r
    /\ arg' = r.caller
    /\ UNCHANGED <<raw_data, processed_data, states_gdf, dm_exc, trail, files,
                   stats, pre_ret, numpy_raises, vis, rng42,
                   nifc, fvis, threads>>

V_validate_coordinates ==
    /\ Call("validate_coordinates", validate_coordinates(arg))
    /\ UNCHANGED <<disk, fv_data>>

V_validate_required_columns ==
    /\ Call("validate_required_columns", validate_required_columns(arg))
    /\ UNCHANGED <<disk, fv_data>>

V_validate_dates ==
    /\ Call("validate_dates", validate_dates(arg))
    /\ UNCHANGED <<disk, fv_data>>

V_validate_numeric_columns ==
    /\ Call("validate_numeric_columns", validate_numeric_columns(arg, CriticalCols))
    /\ UNCHANGED <<disk, fv_data>>

\* FireVisualizer.load_data(force_reload) with arg the selected shapefile
FV_load_data(force_reload) ==
    /\ Idle
    /\ IF ~force_reload /\ disk.checkpoint # None
       THEN /\ fv_data' = disk.checkpoint
            /\ UNCHANGED <<disk, arg, ret>>
       ELSE LET r == fv_clean(arg)
            IN  /\ ret' = [fn |-> "load_data"] @@ r
                /\ arg' = r.caller
                /\ fv_data' = IF r.exc = "none" THEN r.df ELSE fv_data
                /\ disk' = IF r.exc = "none"
                           THEN [disk EXCEPT !.checkpoint = r.df]
                           ELSE disk
    /\ UNCHANGED <<raw_data, processed_data, states_gdf, dm_exc, trail, files,
                   stats, pre_ret, numpy_raises, vis, rng42,
                   nifc, fvis, threads>>

\* the caller hands the table validate_numeric_columns returned to the next
\* call
V_pass_on ==
    /\ ret # None
    /\ ret.fn = "validate_numeric_columns"
    /\ trail = <<>>
    /\ arg' = ret.df
    /\ trail' = Append(trail, ret.fn)
    /\ ret' = None
    /\ UNCHANGED <<disk, raw_data, processed_data, states_gdf, dm_exc, fv_data,
                   files, stats, pre_ret, numpy_raises, vis, rng42,
                   nifc, fvis, threads>>

\* DataManager.clean_data() with raw_data the table
V_clean_data == Idle /\ trail = <<>> /\ DM_clean_data

CleanNext ==
    \/ V_validate_required_columns
    \/ V_validate_coordinates
    \/ V_validate_dates
    \/ V_validate_numeric_columns
    \/ \E force_reload \in BOOLEAN : FV_load_data(force_reload)
    \/ V_pass_on
    \/ V_clean_data

CleanSpec == CleanInit /\ [][CleanNext]_vars

----------------------------------------------------------------------------
(* preprocess_fire_data.py: FireDataPreprocessor *)

\* FireDataPreprocessor.get_season
get_season(month) ==
    IF month \in {12, 1, 2} THEN "Winter"
    ELSE IF month \in {3, 4, 5} THEN "Spring"
    ELSE IF month \in {6, 7, 8} THEN "Summer"
    ELSE IF month \in {9, 10, 11} THEN "Fall"
    ELSE "Winter"

\* column_mapping of standardize_columns
column_mapping(c) ==
    CASE c \in {"latitude", "LATITUDE"} -> "latitude"
      [] c \in {"longitude", "LONGITUDE"} -> "longitude"
      [] c \in {"brightness", "BRIGHTNESS"} -> "brightness"
      [] c \in {"acq_date", "ACQ_DATE"} -> "date"
      [] c \in {"acq_time", "ACQ_TIME"} -> "time"
      [] c \in {"satellite", "SATELLITE"} -> "satellite"
      [] c \in {"instrument", "INSTRUMENT"} -> "instrument"
      [] c \in {"confidence", "CONFIDENCE"} -> "confidence"
      [] c \in {"version", "VERSION"} -> "version"
      [] c = "bright_t31" -> "brightness_t31"
      [] c \in {"frp", "FRP"} -> "fire_radiative_power"
      [] c \in {"daynight", "DAYNIGHT"} -> "day_night"
      [] OTHER -> c

\* df.rename(columns=...): of two columns renamed to one name the table keeps
\* one
standardize_columns(df) ==
    LET new == {column_mapping(c) : c \in df.columns}
    IN  [columns |-> new,
         rows |-> [i \in 1..Len(df.rows) |->
                      [k \in new |->
                          df.rows[i][CHOOSE c \in df.columns : column_mapping(c) = k]]]]

\* series.between(lo, hi): False on a missing value
between(c, lo, hi) == Ge(c, lo) /\ Le(c, hi)

\* np.percentile(vals, 99), multiplied by 100; vals is not empty
Percentile99x100(vals) ==
    LET s == Sort(vals)
        pos == (Len(s) - 1) * 99
        lo == pos \div 100
        rest == pos % 100
        hi == IF lo + 2 <= Len(s) THEN lo + 2 ELSE Len(s)
    IN  100 * s[lo + 1] + rest * (s[hi] - s[lo + 1])

\* pd.to_datetime(date + ' ' + time, format='%Y-%m-%d %H%M', errors='coerce');
\* whole is whether every time of the column is an integer
to_datetime_hhmm(date, time, whole) ==
    IF /\ date.kind = "date"
       /\ whole
       /\ time.val \div 100 < 24
       /\ time.val % 100 < 60
       /\ time.val >= 0
    THEN date
    ELSE NaN

\* one round of the numeric_columns loop of validate_data
PercentileStep(acc, col, raises) ==
    IF acc.exc # "none" \/ col \notin acc.df.columns THEN acc
    ELSE With(Assign(acc.df, col, LAMBDA r : to_numeric(r[col])), LAMBDA d :
             IF Values(d, col) = <<>>
             THEN IF raises
                  THEN [exc |-> "IndexError", df |-> d]
                  ELSE [exc |-> "none", df |-> Filter(d, LAMBDA r : FALSE)]
             ELSE With(Percentile99x100(Values(d, col)), LAMBDA percentile_99 :
                      [exc |-> "none",
                       df |-> Filter(d, LAMBDA r :
                                  IsNum(r[col]) /\
                                  100 * r[col].val <= percentile_99)]))

RECURSIVE PercentileLoop(_, _, _)
PercentileLoop(acc, columns, raises) ==
    IF columns = <<>> THEN acc
    ELSE With(PercentileStep(acc, Head(columns), raises),
              LAMBDA next : PercentileLoop(next, Tail(columns), raises))

numeric_columns == <<"brightness", "fire_radiative_power", "brightness_t31">>

\* FireDataPreprocessor.validate_data(df)
validate_data(df, raises) ==
    IF ~({"latitude", "longitude"} \subseteq df.columns)
    THEN [exc |-> "KeyError", df |-> df]
    ELSE
    LET d1 == Assign(Assign(df, "latitude", LAMBDA r : to_numeric(r.latitude)),
                     "longitude", LAMBDA r : to_numeric(r.longitude))
        Dated(d2) ==
            LET whole == \A i \in 1..Len(d2.rows) : IsNum(d2.rows[i].time)
                d3 == IF "time" \in d2.columns
                      THEN Assign(d2, "datetime",
                               LAMBDA r : to_datetime_hhmm(r.date, r.time, whole))
                      ELSE Assign(d2, "datetime", LAMBDA r : to_datetime(r.date))
            IN  IF "date" \in d2.columns
                THEN Filter(d3, LAMBDA r : notna(r.datetime) /\
                                           DateLe(r.datetime.val, Now))
                ELSE d2
    IN  With(Filter(d1, LAMBDA r : between(r.latitude, -90, 90) /\
                                   between(r.longitude, -180, 180)),
             LAMBDA d2 :
                 With(Dated(d2), LAMBDA d4 :
                     PercentileLoop([exc |-> "none", df |-> d4],
                                    numeric_columns, raises)))

\* the calendar: datetime.dt.isocalendar().week and strftime('%V')
IsLeap(y) == (y % 4 = 0 /\ y % 100 # 0) \/ y % 400 = 0

DaysIn(y, m) ==
    IF m = 2 THEN (IF IsLeap(y) THEN 29 ELSE 28)
    ELSE IF m \in {4, 6, 9, 11} THEN 30 ELSE 31

RECURSIVE DaysBefore(_, _)
DaysBefore(y, m) == IF m = 1 THEN 0 ELSE DaysBefore(y, m - 1) + DaysIn(y, m - 1)

DayOfYear(d) == DaysBefore(d[1], d[2]) + d[3]

\* days since 0001-01-01, a Monday
Ordinal(d) ==
    LET p == d[1] - 1
    IN  365 * p + (p \div 4) - (p \div 100) + (p \div 400) + DayOfYear(d)

\* Monday is 1, Sunday is 7
Weekday(d) == ((Ordinal(d) - 1) % 7) + 1

WeeksIn(y) ==
    LET j == Weekday(<<y, 1, 1>>)
    IN  IF j = 4 \/ (IsLeap(y) /\ j = 3) THEN 53 ELSE 52

IsoWeek(d) ==
    LET w == (DayOfYear(d) - Weekday(d) + 10) \div 7
    IN  IF w < 1 THEN WeeksIn(d[1] - 1)
        ELSE IF w > WeeksIn(d[1]) THEN 1
        ELSE w

\* FireDataPreprocessor.create_temporal_aggregations(df): every datetime of
\* df is a date
create_temporal_aggregations(df) ==
    LET More(r) ==
            LET d == r.datetime.val
            IN  [year |-> Num(d[1]),
                 month |-> Num(d[2]),
                 week |-> Num(IsoWeek(d)),
                 season |-> Label(get_season(d[2])),
                 yearly_period |-> Label(<<d[1]>>),
                 monthly_period |-> Label(<<d[1], d[2]>>),
                 weekly_period |-> Label(<<d[1], "W", IsoWeek(d)>>),
                 seasonal_period |-> Label(<<d[1], get_season(d[2])>>)]
        new == {"year", "month", "week", "season", "yearly_period",
                "monthly_period", "weekly_period", "seasonal_period"}
    IN  [columns |-> df.columns \cup new,
         rows |-> [i \in 1..Len(df.rows) |-> More(df.rows[i]) @@ df.rows[i]]]

\* the columns create_aggregated_datasets aggregates
agg_metrics == {"latitude", "longitude", "brightness", "fire_radiative_power"}

\* a file pd.read_csv cannot read
Unreadable == Str

\* FireDataPreprocessor.process_file(file_path): the GeoDataFrame or None,
\* and self.stats afterwards
process_file(file, path, st, raises) ==
    IF file = Unreadable
    THEN [gdf |-> None,
          stats |-> [st EXCEPT !.errors = Append(@, <<path, "ParserError">>)]]
    ELSE
    With(validate_data(standardize_columns(file), raises), LAMBDA v :
        IF v.exc # "none"
        THEN [gdf |-> None,
              stats |-> [st EXCEPT !.errors = Append(@, <<path, v.exc>>)]]
        ELSE IF len(v.df) > 0
        THEN [gdf |-> Assign(v.df, "geometry", LAMBDA r : Label("Point")),
              stats |-> [st EXCEPT !.total_records = @ + len(v.df),
                                   !.total_files_processed = @ + 1]]
        ELSE [gdf |-> None, stats |-> st])

\* the loop of process_data over csv_files from file i on
RECURSIVE ProcessFiles(_, _, _, _)
ProcessFiles(csv_files, i, acc, raises) ==
    IF i > Len(csv_files) THEN acc
    ELSE With(process_file(csv_files[i], i, acc.stats, raises), LAMBDA r :
             With([all_data |-> IF r.gdf # None /\ len(r.gdf) > 0
                                THEN Append(acc.all_data, r.gdf)
                                ELSE acc.all_data,
                   stats |-> r.stats],
                  LAMBDA next : ProcessFiles(csv_files, i + 1, next, raises)))

\* pd.concat(all_data, ignore_index=True)
RECURSIVE concat(_)
concat(all_data) ==
    IF all_data = <<>> THEN Table({}, <<>>)
    ELSE LET rest == concat(Tail(all_data))
             cols == Head(all_data).columns \cup rest.columns
             Wide(r) == [c \in cols |-> IF c \in DOMAIN r THEN r[c] ELSE NaN]
         IN  Table(cols, [i \in 1..len(Head(all_data)) |-> Wide(Head(all_data).rows[i])]
                         \o [i \in 1..len(rest) |-> Wide(rest.rows[i])])

\* FireDataPreprocessor.process_data(): what it raises or returns, the file
\* fire_data.csv it leaves, and self.stats afterwards
process_data(csv_files, st, out, raises) ==
    With(ProcessFiles(csv_files, 1, [all_data |-> <<>>, stats |-> st], raises),
         LAMBDA acc :
    IF acc.all_data = <<>>
    THEN [exc |-> "ValueError", df |-> None, output |-> out, stats |-> acc.stats]
    ELSE
    With(concat(acc.all_data), LAMBDA combined_data :
    IF "datetime" \notin combined_data.columns
    THEN [exc |-> "KeyError", df |-> None, output |-> out, stats |-> acc.stats]
    ELSE
    With(create_temporal_aggregations(sort_values(combined_data)), LAMBDA temporal :
    IF ~(agg_metrics \subseteq temporal.columns)
    THEN [exc |-> "KeyError", df |-> None, output |-> temporal, stats |-> acc.stats]
    ELSE [exc |-> "none", df |-> temporal, output |-> temporal, stats |-> acc.stats])))

\* the rows of the CSV files
CsvRow(lat, lon, date, b) ==
    [latitude |-> lat, longitude |-> lon, acq_date |-> date, brightness |-> b,
     frp |-> Num(1)]

CsvCat ==
    << CsvRow(GoodLat, GoodLon, GoodDate, Num(1)),
       CsvRow(GoodLat, GoodLon, Date(<<2023, 1, 1>>), Num(2)),
       CsvRow(Num(95), GoodLon, GoodDate, Num(1)),
       CsvRow(GoodLat, GoodLon, Future, Num(1)),
       CsvRow(GoodLat, GoodLon, GoodDate, NaN),
       CsvRow(GoodLat, GoodLon, Date(<<2023, 12, 28>>), Num(1)) >>

CsvCols == {"latitude", "longitude", "acq_date", "brightness", "frp"}

CsvFile(ix) == Table(CsvCols, [i \in 1..Len(ix) |-> CsvCat[ix[i]]])

\* a file without coordinates
NoCoordinates ==
    Table({"acq_date", "brightness"},
          <<[acq_date |-> GoodDate, brightness |-> Num(1)]>>)

RECURSIVE Rank(_)
Rank(ix) == IF ix = <<>> THEN 0 ELSE Head(ix) + (Len(CsvCat) + 1) * Rank(Tail(ix))

\* the directories of at most MaxFiles files, up to the order of the files
CsvIndexes == NonDec(Len(CsvCat), MaxRows - 3)

Directories ==
    LET lists == UNION {[1..n -> CsvIndexes] : n \in 0..MaxFiles}
        ordered == {s \in lists : \A i \in 1..(Len(s) - 1) : Rank(s[i]) <= Rank(s[i + 1])}
    IN  {[i \in 1..Len(s) |-> CsvFile(s[i])] : s \in ordered}
        \cup {<<Unreadable>>, <<NoCoordinates>>}
        \cup {<<Unreadable, CsvFile(ix)>> : ix \in CsvIndexes}

NewStats == [total_files_processed |-> 0, total_records |-> 0, errors |-> <<>>]

PreprocessInit ==
    /\ files \in Directories
    /\ stats = NewStats
    /\ pre_ret = None
    /\ numpy_raises \in BOOLEAN
    /\ vis = None
    /\ nifc = None
    /\ fvis = None
    /\ threads = None
    /\ rng42 = <<>>
    /\ disk = [output |-> None]
    /\ raw_data = None
    /\ processed_data = None
    /\ states_gdf = None
    /\ dm_exc = "none"
    /\ arg = None
    /\ ret = None
    /\ trail = <<>>
    /\ fv_data = None

\* the calls of process_data so far
Runs == IF pre_ret = None THEN 0 ELSE pre_ret.runs

\* FireDataPreprocessor.process_data()
PP_process_data ==
    /\ Runs < MaxRuns
    /\ \E r \in {process_data(files, stats, disk.output, numpy_raises)} :
           /\ pre_ret' = [runs |-> Runs + 1,
                          exc |-> r.exc, df |-> r.df]
           /\ stats' = r.stats
           /\ disk' = [disk EXCEPT !.output = r.output]
    /\ UNCHANGED <<raw_data, processed_data, states_gdf, dm_exc, arg, ret, trail,
                   fv_data, files, numpy_raises, vis, rng42,
                   nifc, fvis, threads>>

PreprocessNext == PP_process_data

PreprocessSpec == PreprocessInit /\ [][PreprocessNext]_vars


----------------------------------------------------------------------------
(* wildfires/visualizer.py *)

\* In the tables the visualizer reads, LATITUDE and LONGITUDE are in
\* hundredths of a degree, so that several records fall into one bin of a
\* tenth of a degree.

\* (x * 10).round() / 10 for x in hundredths, in tenths: pandas rounds a
\* half to the even neighbour
Bin(h) ==
    LET q == h \div 10
        r == h % 10
    IN  IF r < 5 THEN q
        ELSE IF r > 5 THEN q + 1
        ELSE IF q % 2 = 0 THEN q ELSE q + 1

\* self.seasons[season][0]
FirstMonth(season) ==
    CASE season = "Winter" -> 12
      [] season = "Spring" -> 3
      [] season = "Summer" -> 6
      [] season = "Fall" -> 9

\* season, year and period_start of create_visualization, lines 267-276
add_periods(data) ==
    LET d1 == Assign(data, "season", LAMBDA r : Label(SeasonOf(r.datetime.val[2])))
        d2 == Assign(d1, "year", LAMBDA r : Num(r.datetime.val[1]))
    IN  Assign(d2, "period_start", LAMBDA r :
            Date(<<r.year.val, FirstMonth(r.season.val), 1>>))

\* the group key of a record: year, season, period_start and the two bins
GroupKey(r) ==
    <<r.year.val, r.season.val, r.period_start.val, r.LATITUDE_BIN.val,
      r.LONGITUDE_BIN.val>>

\* the order in which groupby lists its keys
KeyLt(a, b) ==
    \E i \in 1..5 :
        /\ \A j \in 1..(i - 1) : a[j] = b[j]
        /\ CASE i = 2 -> \E s \in {<<"Fall", "Spring">>, <<"Fall", "Summer">>,
                                   <<"Fall", "Winter">>, <<"Spring", "Summer">>,
                                   <<"Spring", "Winter">>, <<"Summer", "Winter">>} :
                             a[2] = s[1] /\ b[2] = s[2]
             [] i = 3 -> a[3] # b[3] /\ DateLe(a[3], b[3])
             [] OTHER -> a[i] < b[i]

\* the keys of a set in groupby's order
RECURSIVE SortKeys(_)
SortKeys(K) ==
    IF K = {} THEN <<>>
    ELSE LET k == CHOOSE x \in K : \A y \in K \ {x} : KeyLt(x, y)
         IN  <<k>> \o SortKeys(K \ {k})

\* GroupBy.first: the first value of the column that is not null
first(rows, c) ==
    LET present == SelectSeq(rows, LAMBDA r : notna(r[c]))
    IN  IF present = <<>> THEN NaN ELSE present[1][c]

\* GroupBy.mean of BRIGHTNESS, kept exact as sum / n
mean(rows, c) ==
    LET v == Values(Table({c}, rows), c)
    IN  IF v = <<>> THEN NaN
        ELSE [kind |-> "mean", val |-> Sum(v), n |-> Len(v)]

\* GroupBy.mean of intensity: the records of one table share ss and n, so
\* the mean of their intensities is the sum of their dev over their number,
\* times the table's sqrt(n - 1) / sqrt(ss)
mean_intensity(rows) ==
    LET z == SelectSeq(rows, LAMBDA r : r.intensity.kind = "z")
    IN  IF z = <<>> THEN NaN
        ELSE [kind |-> "z", val |-> Sum([i \in 1..Len(z) |-> z[i].intensity.val]),
              count |-> Len(z), ss |-> z[1].intensity.ss, n |-> z[1].intensity.n]

\* fire_area aggregated with 'first' in place of 'sum'
sum_area_first(rows) ==
    IF rows = <<>> THEN 0 ELSE rows[1].fire_area.val

\* GroupBy.sum of fire_area
sum_area(rows) == Sum(Values(Table({"fire_area"}, rows), "fire_area"))

\* GroupBy.count of datetime: the values that are not null
count(rows, c) == Len(SelectSeq(rows, LAMBDA r : notna(r[c])))

\* the aggregate of the records of one key
Aggregate(key, rows) ==
    [year |-> Num(key[1]), season |-> Label(key[2]), period_start |-> Date(key[3]),
     LATITUDE_BIN |-> Num(key[4]), LONGITUDE_BIN |-> Num(key[5]),
     LATITUDE |-> first(rows, "LATITUDE"),
     LONGITUDE |-> first(rows, "LONGITUDE"),
     BRIGHTNESS |-> mean(rows, "BRIGHTNESS"),
     fire_area |-> Num(sum_area(rows)),
     intensity |-> mean_intensity(rows),
     state |-> first(rows, "state"),
     fire_count |-> Num(count(rows, "datetime"))]

\* the entry of the state summary for one label
StateEntry(label, rows) ==
    [state |-> Label(label), fire_area |-> Num(sum_area(rows)),
     fire_count |-> Num(count(rows, "datetime"))]

\* the region labels, in groupby's order
StateLabels == <<"CA", "KS", "NE", "WA">>

\* FireVisualizer._aggregate_by_location_and_season: groupby drops the
\* records whose key is null
aggregate_by_location_and_season(data) ==
    With(Assign(Assign(data, "LATITUDE_BIN", LAMBDA r : Num(Bin(r.LATITUDE.val))),
                "LONGITUDE_BIN", LAMBDA r : Num(Bin(r.LONGITUDE.val))),
         LAMBDA d2 :
    With(SortKeys({GroupKey(d2.rows[i]) : i \in 1..len(d2)}), LAMBDA keys :
    With(SelectSeq(StateLabels, LAMBDA l :
             \E i \in 1..len(d2) : d2.rows[i].state = Label(l)), LAMBDA labels :
        [seasonal_data |->
             [i \in 1..Len(keys) |->
                 Aggregate(keys[i], SelectSeq(d2.rows, LAMBDA r : GroupKey(r) = keys[i]))],
         state_data |->
             [i \in 1..Len(labels) |->
                 StateEntry(labels[i], SelectSeq(d2.rows, LAMBDA r :
                                r.state = Label(labels[i])))],
         data |-> d2])))

\* the largest k in lo..hi with k * k <= v
RECURSIVE SqrtIn(_, _, _)
SqrtIn(v, lo, hi) ==
    IF lo = hi THEN lo
    ELSE IF ((lo + hi + 1) \div 2) * ((lo + hi + 1) \div 2) <= v
         THEN SqrtIn(v, (lo + hi + 1) \div 2, hi)
         ELSE SqrtIn(v, lo, ((lo + hi + 1) \div 2) - 1)

\* np.sqrt of an integer below 2^31, rounded down
ISqrt(v) == SqrtIn(v, 0, 46340)

\* An area is m * 100^e square kilometres, m in 0..21: [m, e].
Area(m, e) == [m |-> m, e |-> e]

\* np.cos(np.radians(latitude)) times 10^4, rounded down, for the latitudes
\* (in hundredths of a degree) of the model
Cos4(latitude) ==
    CASE latitude \in {-9000, 9000} -> 0
      [] latitude \in {-4500, 4500} -> 7071
      [] latitude = 0 -> 10000
      [] latitude = 2500 -> 9063
      [] latitude = 3400 -> 8290
      [] latitude = 3700 -> 7986
      [] latitude = 3996 -> 7664
      [] latitude = 4004 -> 7655
      [] latitude = 4700 -> 6819
      [] latitude = 5500 -> 5735
      [] latitude = 6000 -> 5000
      [] latitude = 7000 -> 3420

RECURSIVE Pow(_, _)
Pow(b, k) == IF k = 0 THEN 1 ELSE b * Pow(b, k - 1)

min_radius == 2
max_radius == 20

\* np.clip(x, lo, hi)
clip(x, lo, hi) == IF x < lo THEN lo ELSE IF x > hi THEN hi ELSE x

\* pixel_radius of _calculate_pixel_radius before the clip, in thousandths
\* of a pixel, in fixed point:
\*   radius_km = sqrt(m / pi) * 10^e            (ISqrt, times 10^4)
\*   mercator_correction = cos(latitude)        (Cos4, times 10^4)
\*   km_per_pixel = 156.543 / 2^zoom
\*   pixel_radius = radius_km * mercator_correction / km_per_pixel * 0.05
pixel_radius(area_km2, latitude, zoom) ==
    LET radius_km == ISqrt(((area_km2.m * 100000000) \div 31416) * 10000)
        corrected == (radius_km * Cos4(latitude)) \div 10000
        pixels == (corrected * Pow(2, zoom) * 5) \div 156543
    IN  IF area_km2.e >= 0 THEN pixels * Pow(10, area_km2.e)
        ELSE pixels \div Pow(10, 0 - area_km2.e)

\* the radius without the limits of VIS_SETTINGS
calculate_pixel_radius_unclipped(area_km2, latitude, zoom) ==
    pixel_radius(area_km2, latitude, zoom)

\* FireVisualizer._calculate_pixel_radius, in thousandths of a pixel
calculate_pixel_radius(area_km2, latitude, zoom) ==
    clip(pixel_radius(area_km2, latitude, zoom), min_radius * 1000, max_radius * 1000)

\* An intensity x is val / count times its table's sqrt(n - 1) / sqrt(ss).
\* x < y for two intensities of one table
ZLt(x, y) == x.val * y.count < y.val * x.count

\* the intensities of the rows that are not null
Intensities(rows) ==
    {rows[i].intensity : i \in {j \in 1..Len(rows) : rows[j].intensity.kind = "z"}}

\* seasonal_data['intensity'].min(): null values are skipped
intensity_min(rows) ==
    IF Intensities(rows) = {} THEN NaN
    ELSE CHOOSE x \in Intensities(rows) : \A y \in Intensities(rows) : ~ZLt(y, x)

\* seasonal_data['intensity'].max()
intensity_max(rows) ==
    IF Intensities(rows) = {} THEN NaN
    ELSE CHOOSE x \in Intensities(rows) : \A y \in Intensities(rows) : ~ZLt(x, y)

\* (intensity - intensity_min) / (intensity_max - intensity_min) as the
\* fraction num / den with den > 0, NaN when a term is null or the
\* denominator is 0
normalized(intensity, imin, imax) ==
    IF intensity.kind # "z" \/ imin.kind # "z" \/ imax.kind # "z"
    THEN NaN
    ELSE LET lo == imin.val * intensity.count * imax.count
             num == intensity.val * imin.count * imax.count - lo
             den == imax.val * intensity.count * imin.count - lo
         IN  IF den = 0 THEN NaN
             ELSE IF den < 0 THEN [kind |-> "frac", num |-> 0 - num, den |-> 0 - den]
             ELSE [kind |-> "frac", num |-> num, den |-> den]

\* max(0, min(1, v)): min(1, nan) is 1
clip01(v) ==
    IF v.kind = "nan" THEN [kind |-> "frac", num |-> 1, den |-> 1]
    ELSE IF v.num > v.den THEN [kind |-> "frac", num |-> 1, den |-> 1]
    ELSE IF v.num < 0 THEN [kind |-> "frac", num |-> 0, den |-> 1]
    ELSE v

\* the colour with <= for < at both thresholds
color_inclusive(v) ==
    IF 100 * v.num <= 33 * v.den THEN "low_intensity"
    ELSE IF 100 * v.num <= 66 * v.den THEN "medium_intensity"
    ELSE "high_intensity"

\* the colour of _create_fire_feature for the clipped intensity v
color(v) ==
    IF 100 * v.num < 33 * v.den THEN "low_intensity"
    ELSE IF 100 * v.num < 66 * v.den THEN "medium_intensity"
    ELSE "high_intensity"

\* FireVisualizer._create_fire_feature(row, base_zoom)
create_fire_feature(row, imin, imax, base_zoom) ==
    [time |-> row.period_start.val,
     coordinates |-> <<row.LONGITUDE.val, row.LATITUDE.val>>,
     v |-> clip01(normalized(row.intensity, imin, imax)),
     color |-> color(clip01(normalized(row.intensity, imin, imax))),
     radius |-> calculate_pixel_radius(Area(row.fire_area.val, 0), row.LATITUDE.val,
                                       base_zoom),
     fire_count |-> row.fire_count.val,
     season |-> row.season.val, year |-> row.year.val]

\* PERFORMANCE['max_points_per_frame'], 1000 in config.py: the frames of the
\* model hold a few points and the cap is scaled down with them
MaxPointsPerFrame == 2

\* the signs of the weights intensity.abs() * fire_area of the rows; a null
\* weight counts as 0 in DataFrame.sample
WeightSigns(group) ==
    [i \in 1..Len(group) |->
        IF group[i].intensity.kind # "z" \/ group[i].intensity.val = 0
           \/ group[i].fire_area.val = 0
        THEN 0
        ELSE IF group[i].fire_area.val < 0 THEN -1 ELSE 1]

\* the sample drawn with replacement: the position reached first, n times
sample_with_replacement(group, n, weights, order) ==
    LET drawn == SelectSeq(order, LAMBDA p : p <= Len(group) /\ weights[p] = 1)
    IN  IF Len(drawn) = 0
        THEN [exc |-> "ValueError", rows |-> <<>>]
        ELSE [exc |-> "none", rows |-> [i \in 1..n |-> group[drawn[1]]]]

\* group.sample(n, weights, random_state): n rows drawn without replacement
\* among the rows of positive weight, in the order `order` in which the
\* generator reaches the positions; ValueError when a weight is negative,
\* when the weights sum to 0 and when fewer than n weights are not 0
sample(group, n, weights, order) ==
    LET drawn == SelectSeq(order, LAMBDA p : p <= Len(group) /\ weights[p] = 1)
    IN  IF \E i \in 1..Len(group) : weights[i] = -1
        THEN [exc |-> "ValueError", rows |-> <<>>]
        ELSE IF n > Len(group) \/ Len(drawn) = 0 \/ Len(drawn) < n
        THEN [exc |-> "ValueError", rows |-> <<>>]
        ELSE [exc |-> "none", rows |-> [i \in 1..n |-> group[drawn[i]]]]

\* the (year, season) pairs of seasonal_data, in its order
RECURSIVE FrameKeys(_)
FrameKeys(rows) ==
    IF rows = <<>> THEN <<>>
    ELSE With(FrameKeys(SubSeq(rows, 1, Len(rows) - 1)), LAMBDA before :
             IF \E i \in 1..Len(before) :
                    before[i] = <<rows[Len(rows)].year, rows[Len(rows)].season>>
             THEN before
             ELSE Append(before, <<rows[Len(rows)].year, rows[Len(rows)].season>>))

\* one pass of the loop of create_visualization over a (year, season) group:
\* the group, the rows it hands to _create_fire_feature, and the exception
\* of the sampler
Frame(group, order) ==
    IF Len(group) > MaxPointsPerFrame
    THEN With(sample(group, MaxPointsPerFrame, WeightSigns(group), order), LAMBDA s :
             [group |-> group, emitted |-> s.rows, exc |-> s.exc, sampled |-> TRUE])
    ELSE [group |-> group, emitted |-> group, exc |-> "none", sampled |-> FALSE]

RECURSIVE Flatten(_)
Flatten(ss) == IF ss = <<>> THEN <<>> ELSE Head(ss) \o Flatten(Tail(ss))

\* DataManager.get_time_series
TimeSeriesCols ==
    {"datetime", "LATITUDE", "LONGITUDE", "BRIGHTNESS", "fire_area", "intensity", "state"}

get_time_series(df) ==
    Table(TimeSeriesCols,
          [i \in 1..len(df) |-> [c \in TimeSeriesCols |-> df.rows[i][c]]])

\* FireVisualizer.create_visualization with the processed data pd (None:
\* the cache is read), the cache and the order of the seeded generator
create_visualization(pd, cache, order) ==
    IF pd = None /\ cache = None
    THEN [exc |-> "ValueError", processed_data |-> None, seasonal_data |-> <<>>,
          state_data |-> <<>>, frames |-> <<>>, features |-> <<>>,
          intensity_min |-> None, intensity_max |-> None]
    ELSE
    With(IF pd = None THEN cache ELSE pd, LAMBDA loaded :
    With(aggregate_by_location_and_season(add_periods(get_time_series(loaded))),
         LAMBDA agg :
    With(FrameKeys(agg.seasonal_data), LAMBDA keys :
    With([k \in 1..Len(keys) |->
             Frame(SelectSeq(agg.seasonal_data,
                             LAMBDA r : <<r.year, r.season>> = keys[k]), order)],
         LAMBDA frames :
    With(CHOOSE n \in 0..Len(frames) :
             /\ \A k \in 1..n : frames[k].exc = "none"
             /\ n < Len(frames) => frames[n + 1].exc # "none",
         LAMBDA done :
        [exc |-> IF done < Len(frames) THEN "ValueError" ELSE "none",
         processed_data |-> loaded,
         seasonal_data |-> agg.seasonal_data,
         state_data |-> agg.state_data,
         frames |-> SubSeq(frames, 1, done),
         features |->
             IF done < Len(frames) THEN <<>>
             ELSE Flatten([k \in 1..Len(frames) |->
                      [i \in 1..Len(frames[k].emitted) |->
                          create_fire_feature(frames[k].emitted[i],
                                              intensity_min(agg.seasonal_data),
                                              intensity_max(agg.seasonal_data), 4)]]),
         intensity_min |-> intensity_min(agg.seasonal_data),
         intensity_max |-> intensity_max(agg.seasonal_data)])))))

----------------------------------------------------------------------------
(* The visualizer over the processed data of an earlier clean_data. *)

VisRow(date, lat, lon, b, s, t, state) ==
    [datetime |-> Date(date), LATITUDE |-> Num(lat), LONGITUDE |-> Num(lon),
     BRIGHTNESS |-> Num(b), SCAN |-> Num(s), TRACK |-> Num(t), state |-> state]

\* cleaned records in the order of their datetime: one of January, one in no
\* region, three in one bin on both sides of a border, one of area 0, two of
\* one region in two seasons
VisCat ==
    << VisRow(<<2023, 1, 15>>, 3400, -11800, 1, 1, 1, Label("CA")),
       VisRow(<<2023, 6, 10>>, 5500, -11000, 3, 0, 1, NaN),
       VisRow(<<2023, 7, 4>>, 3996, -10004, 1, 1, 2, Label("KS")),
       VisRow(<<2023, 7, 20>>, 4004, -9996, 2, 1, 3, Label("NE")),
       VisRow(<<2023, 7, 30>>, 4700, -12200, 2, 1, 1, Label("WA")),
       VisRow(<<2023, 8, 1>>, 4004, -10001, 1, 1, 1, Label("NE")),
       VisRow(<<2023, 8, 15>>, 3700, -12000, 3, 1, 2, Label("CA")),
       VisRow(<<2023, 12, 15>>, 3400, -11800, 2, 1, 3, Label("CA")) >>

VisCols ==
    {"datetime", "LATITUDE", "LONGITUDE", "BRIGHTNESS", "SCAN", "TRACK", "state"}

\* what clean_data leaves of such records: fire_area and intensity added
ProcessedTables ==
    {Derived(Table(VisCols, [i \in 1..Len(ix) |-> VisCat[ix[i]]])) :
         ix \in NonDec(Len(VisCat), MaxRows - 1)}

\* the orders in which a generator can reach the positions of a group
Orders ==
    {p \in [1..(MaxRows - 1) -> 1..(MaxRows - 1)] :
         \A i, j \in 1..(MaxRows - 1) : p[i] = p[j] => i = j}

VisInit ==
    /\ \E t \in ProcessedTables \cup {None}, cached \in BOOLEAN :
           /\ disk = [processed_cache |-> IF cached THEN t ELSE None]
           /\ processed_data = IF cached THEN None ELSE t
    /\ rng42 \in Orders
    /\ raw_data = None
    /\ states_gdf = None
    /\ dm_exc = "none"
    /\ arg = None
    /\ ret = None
    /\ trail = <<>>
    /\ fv_data = None
    /\ files = <<>>
    /\ stats = None
    /\ pre_ret = None
    /\ numpy_raises = FALSE
    /\ vis = None
    /\ nifc = None
    /\ fvis = None
    /\ threads = None

\* DataManager.load_processed_data()
DM_load_processed_data ==
    /\ disk.processed_cache # None
    /\ processed_data' = disk.processed_cache
    /\ UNCHANGED <<disk, raw_data, states_gdf, dm_exc, arg, ret, trail, fv_data,
                   files, stats, pre_ret, numpy_raises, vis, rng42,
                   nifc, fvis, threads>>

\* FireVisualizer.create_visualization(output_file)
WV_create_visualization ==
    /\ \E r \in {create_visualization(processed_data, disk.processed_cache, rng42)} :
           /\ processed_data' = r.processed_data
           /\ vis' = [exc |-> r.exc, seasonal_data |-> r.seasonal_data,
                      state_data |-> r.state_data, frames |-> r.frames,
                      features |-> r.features, intensity_min |-> r.intensity_min,
                      intensity_max |-> r.intensity_max]
    /\ UNCHANGED <<disk, raw_data, states_gdf, dm_exc, arg, ret, trail, fv_data,
                   files, stats, pre_ret, numpy_raises, rng42,
                   nifc, fvis, threads>>

VisNext ==
    \/ DM_load_processed_data
    \/ WV_create_visualization

VisSpec == VisInit /\ [][VisNext]_vars


----------------------------------------------------------------------------
(* fire_visualizer.py: smart_sample of create_visualization *)

Min(a, b) == IF a < b THEN a ELSE b
Max(a, b) == IF a > b THEN a ELSE b

\* the signs of the weights BRIGHTNESS * fire_area of the rows
SmartWeightSigns(group) ==
    [i \in 1..Len(group) |->
        IF ~IsNum(group[i].BRIGHTNESS) \/ ~IsNum(group[i].fire_area) THEN 0
        ELSE With(group[i].BRIGHTNESS.val * group[i].fire_area.val, LAMBDA w :
                 IF w = 0 THEN 0 ELSE IF w < 0 THEN -1 ELSE 1)]

\* smart_sample(group): no random_state is given, the rows are drawn by the
\* global generator of numpy, here in the order `order`
smart_sample(group, order) ==
    sample(group, Min(Len(group), Max(1, (Len(group) * 2) \div 10)),
           SmartWeightSigns(group), order)

----------------------------------------------------------------------------
(* The samplers, the colour and the radius, each applied to inputs of its
   own: SampleSpec runs the two samplers on one group, FunctionSpec applies
   _create_fire_feature and _calculate_pixel_radius. *)

\* a group of records above the cap of a frame
SampleTasks ==
    {[fn |-> "sample", group |-> t.rows] :
         t \in {u \in ProcessedTables : len(u) = MaxPointsPerFrame + 1}}

\* the intensity v / c
Z(v, c) == [kind |-> "z", val |-> v, count |-> c, ss |-> 1, n |-> 2]

\* intensities in ten-thousandths around the thresholds and outside [0, 1]
ColorVals ==
    {-12000, -3401, -3400, -500, 0, 1, 3299, 3300, 3301, 5000, 6599, 6600, 6601,
     9999, 10000, 12000}

\* an aggregate of intensity x
FeatureRow(x) ==
    [year |-> Num(2023), season |-> Label("Summer"),
     period_start |-> Date(<<2023, 6, 1>>),
     LATITUDE_BIN |-> Num(450), LONGITUDE_BIN |-> Num(-1000),
     LATITUDE |-> Num(4500), LONGITUDE |-> Num(-10000),
     BRIGHTNESS |-> [kind |-> "mean", val |-> 300, n |-> 1],
     fire_area |-> Num(1), intensity |-> x, state |-> Label("KS"),
     fire_count |-> Num(1)]

ColorTasks ==
    {[fn |-> "color", row |-> FeatureRow(x), imin |-> b[1], imax |-> b[2]] :
         x \in {Z(v, 10000) : v \in ColorVals} \cup {NaN},
         b \in {<<Z(0, 1), Z(1, 1)>>, <<Z(-1, 1), Z(1, 1)>>, <<Z(0, 1), Z(0, 1)>>}}

\* VIS_SETTINGS['map']['max_zoom']
max_zoom == 12

\* areas from 0 and 0.0001 to 21 * 10^8 square kilometres
Areas ==
    {Area(0, 0)} \cup {Area(m, e) : m \in {1, 2, 10, 21}, e \in {-2, 0, 2, 4}}

\* latitudes in hundredths of a degree
Latitudes == {-9000, -4500, 0, 2500, 4500, 6000, 7000, 9000}

RadiusTasks ==
    {[fn |-> "radius", areas |-> <<a, b>>, latitude |-> lat, zoom |-> z] :
         a \in Areas, b \in Areas, lat \in Latitudes, z \in 0..max_zoom}

\* every variable but arg and rng42
Untouched ==
    /\ ret = None
    /\ trail = <<>>
    /\ disk = [processed_cache |-> None]
    /\ processed_data = None
    /\ raw_data = None
    /\ states_gdf = None
    /\ dm_exc = "none"
    /\ fv_data = None
    /\ files = <<>>
    /\ stats = None
    /\ pre_ret = None
    /\ numpy_raises = FALSE
    /\ vis = None
    /\ nifc = None
    /\ fvis = None
    /\ threads = None

SampleInit ==
    /\ arg \in SampleTasks
    /\ rng42 \in Orders
    /\ Untouched

\* the names of the fields in the files, in lower and in upper case, and a
\* column the mapping does not know
LowerNames == {"latitude", "brightness", "scan", "track", "acq_date", "frp", "type"}
UpperNames == {"LATITUDE", "BRIGHTNESS", "SCAN", "TRACK", "ACQ_DATE", "FRP", "type"}

\* the value of the one row of a file in column c
CellOf(c) ==
    CASE c \in {"latitude", "LATITUDE"} -> Num(40)
      [] c \in {"brightness", "BRIGHTNESS"} -> Num(300)
      [] c \in {"scan", "SCAN"} -> Num(1)
      [] c \in {"track", "TRACK"} -> Num(2)
      [] c \in {"acq_date", "ACQ_DATE"} -> GoodDate
      [] c \in {"frp", "FRP"} -> Num(7)
      [] OTHER -> Num(0)

\* files of one row and of no row with some of these columns
RenameTasks ==
    {[fn |-> "standardize_columns",
      df |-> Table(cols, [i \in 1..n |-> [c \in cols |-> CellOf(c)]])] :
         cols \in (SUBSET LowerNames \cup SUBSET UpperNames) \ {{}}, n \in 0..1}

FunctionInit ==
    /\ arg \in ColorTasks \cup RadiusTasks \cup RenameTasks
    /\ rng42 = <<>>
    /\ Untouched

\* the calls of fn so far
Calls(fn) == Len(SelectSeq(trail, LAMBDA c : c.fn = fn))

\* the weighted sample of create_visualization (wildfires/visualizer.py) of
\* a group above the cap
WV_sample ==
    /\ arg.fn = "sample"
    /\ Calls("sample") < MaxRuns
    /\ trail' = Append(trail, [fn |-> "sample"] @@
                   sample(arg.group, MaxPointsPerFrame, WeightSigns(arg.group), rng42))
    /\ UNCHANGED <<disk, raw_data, processed_data, states_gdf, dm_exc, arg, ret,
                   fv_data, files, stats, pre_ret, numpy_raises, vis, rng42,
                   nifc, fvis, threads>>

\* smart_sample(group) (fire_visualizer.py)
FV_smart_sample ==
    /\ arg.fn = "sample"
    /\ Calls("smart_sample") < MaxRuns
    /\ \E order \in Orders :
           trail' = Append(trail, [fn |-> "smart_sample"] @@ smart_sample(arg.group, order))
    /\ UNCHANGED <<disk, raw_data, processed_data, states_gdf, dm_exc, arg, ret,
                   fv_data, files, stats, pre_ret, numpy_raises, vis, rng42,
                   nifc, fvis, threads>>

\* FireVisualizer._create_fire_feature(row)
WV_create_fire_feature ==
    /\ arg.fn = "color"
    /\ ret = None
    /\ ret' = [fn |-> "create_fire_feature"] @@
                  create_fire_feature(arg.row, arg.imin, arg.imax, 4)
    /\ UNCHANGED <<disk, raw_data, processed_data, states_gdf, dm_exc, arg, trail,
                   fv_data, files, stats, pre_ret, numpy_raises, vis, rng42,
                   nifc, fvis, threads>>

\* FireVisualizer._calculate_pixel_radius(area_km2, latitude, zoom), for the
\* two areas of the input
WV_calculate_pixel_radius ==
    /\ arg.fn = "radius"
    /\ ret = None
    /\ ret' = [fn |-> "calculate_pixel_radius",
                radius |-> [i \in 1..2 |->
                    calculate_pixel_radius(arg.areas[i], arg.latitude, arg.zoom)]]
    /\ UNCHANGED <<disk, raw_data, processed_data, states_gdf, dm_exc, arg, trail,
                   fv_data, files, stats, pre_ret, numpy_raises, vis, rng42,
                   nifc, fvis, threads>>

SampleNext ==
    \/ WV_sample
    \/ FV_smart_sample

SampleSpec == SampleInit /\ [][SampleNext]_vars

\* FireDataPreprocessor.standardize_columns(df): df.rename(..., inplace=True)
\* renames the columns of the caller's table, which is the table returned
PP_standardize_columns ==
    /\ arg.fn = "standardize_columns"
    /\ ret = None
    /\ \E out \in {standardize_columns(arg.df)} :
           ret' = [fn |-> "standardize_columns", df |-> out, caller |-> out]
    /\ UNCHANGED <<disk, raw_data, processed_data, states_gdf, dm_exc, arg, trail,
                   fv_data, files, stats, pre_ret, numpy_raises, vis, rng42,
                   nifc, fvis, threads>>

FunctionNext ==
    \/ WV_create_fire_feature
    \/ WV_calculate_pixel_radius
    \/ PP_standardize_columns

FunctionSpec == FunctionInit /\ [][FunctionNext]_vars

----------------------------------------------------------------------------
(* Claims about DataManager.clean_data, checked under Spec. *)

Rows(df) == {df.rows[i] : i \in 1..Len(df.rows)}

Cleaned == processed_data # None

\* C1: after clean_data every record of processed_data has BRIGHTNESS > 0,
\* SCAN > 0 and TRACK > 0.
C1_Positive ==
    Cleaned =>
        \A r \in Rows(processed_data) :
            Gt(r.BRIGHTNESS, 0) /\ Gt(r.SCAN, 0) /\ Gt(r.TRACK, 0)

\* C2: after clean_data every record of processed_data has a datetime that
\* is not missing and not later than the processing time.
C2_NoFutureDate ==
    Cleaned =>
        \A r \in Rows(processed_data) :
            notna(r.datetime) /\ DateLe(r.datetime.val, Now)

\* C3: after clean_data every record has a latitude in [25, 70] and a
\* longitude in [-170, -50], neither missing.
C3_InBounds ==
    Cleaned =>
        \A r \in Rows(processed_data) :
            /\ r.LATITUDE.kind = "num" /\ r.LONGITUDE.kind = "num"
            /\ r.LATITUDE.val \in 25..70
            /\ r.LONGITUDE.val \in -170..-50

\* clean_data kept a row and dropped one north of the rectangle and one with
\* a missing longitude
C3_Witness ==
    /\ Cleaned
    /\ len(processed_data) >= 1
    /\ \E r \in Rows(raw_data) : Gt(r.LATITUDE, North)
    /\ \E r \in Rows(raw_data) : ~notna(r.LONGITUDE)

\* C9: clean_data raises nothing on a raw table that has every column it
\* reads, whatever its rows hold.
C9_NeverRaises ==
    (raw_data # None /\ CleanCols \subseteq raw_data.columns) => dm_exc = "none"

----------------------------------------------------------------------------
(* The reference computation of the sequential IQR rejection, on sets of    *)
(* row numbers: the population of a column is the set of rows that passed   *)
(* the filters of the columns before it, and its quartiles are read off the *)
(* ranks of the values.                                                     *)

\* the j-th smallest value of column col over the rows I
RefOrderStat(rows, I, col, j) ==
    CHOOSE v \in {rows[i][col].val : i \in I} :
        /\ Cardinality({i \in I : rows[i][col].val < v}) < j
        /\ Cardinality({i \in I : rows[i][col].val <= v}) >= j

\* 4 * the k-th quartile of column col over the rows I, I not empty
RefQuartile4(rows, I, col, k) ==
    LET pos == (Cardinality(I) - 1) * k
        rest == pos % 4
        below == RefOrderStat(rows, I, col, (pos \div 4) + 1)
    IN  IF rest = 0 THEN 4 * below
        ELSE (4 - rest) * below
                 + rest * RefOrderStat(rows, I, col, (pos \div 4) + 2)

\* row i lies within [Q1 - 1.5 IQR, Q3 + 1.5 IQR] of column col over I
RefWithin(rows, I, col, i) ==
    LET Q1 == RefQuartile4(rows, I, col, 1)
        Q3 == RefQuartile4(rows, I, col, 3)
        x == 4 * rows[i][col].val
    IN  /\ 2 * (Q1 - x) <= 3 * (Q3 - Q1)
        /\ 2 * (x - Q3) <= 3 * (Q3 - Q1)

\* the rows of I with a usable value in col: a number, and a positive one
\* when the positivity check is part of the column's processing
RefUsable(rows, I, col, positive) ==
    {i \in I : rows[i][col].kind = "num" /\ (positive => rows[i][col].val > 0)}

\* the rows that pass the first k columns
RECURSIVE RefSurvivors(_, _, _, _)
RefSurvivors(rows, columns, k, positive) ==
    IF k = 0 THEN 1..Len(rows)
    ELSE LET P == RefUsable(rows, RefSurvivors(rows, columns, k - 1, positive),
                            columns[k], positive)
         IN  {i \in P : RefWithin(rows, P, columns[k], i)}

\* the rows numbered in I, in row order
Pick(rows, I) ==
    LET ix == SelectSeq([i \in 1..Len(rows) |-> i], LAMBDA i : i \in I)
    IN  [j \in 1..Len(ix) |-> rows[ix[j]]]

\* a row with its measurements coerced to numbers
Coerced(r) ==
    [c \in DOMAIN r |-> IF c \in PositiveCols THEN to_numeric(r[c]) ELSE r[c]]

CoercedRows(df) == [i \in 1..Len(df.rows) |-> Coerced(df.rows[i])]

\* a row without the columns cleaning adds
Source(r) == [c \in AllCols |-> r[c]]

\* how many times x occurs in s
Count(s, x) == Cardinality({i \in 1..Len(s) : s[i] = x})

SameBag(s, t) ==
    /\ Len(s) = Len(t)
    /\ \A i \in 1..Len(s) : Count(s, s[i]) = Count(t, s[i])

\* the last call was fn and it returned
Did(fn) == ret # None /\ ret.fn = fn /\ ret.exc = "none"

\* the table of the call has the three measurement columns
Measured == Range(CriticalCols) \subseteq arg.columns

----------------------------------------------------------------------------
(* Claims about the cleaning operations, checked under CleanSpec. *)

\* C4: the positivity filter on brightness, scan and track is complete
\* before the first Q1/Q3 is computed: every row of every population whose
\* quartiles validate_numeric_columns or load_data takes has a positive
\* brightness, scan and track.
C4_PositiveBeforeIQR ==
    (ret # None /\ ret.exc = "none" /\ Measured
         /\ ret.fn \in {"validate_numeric_columns", "load_data"}) =>
        \A c \in Range(CriticalCols) :
            ret.seen[c] # None =>
                \A r \in Rows(ret.seen[c]) :
                    \A k \in PositiveCols : Gt(to_numeric(r[k]), 0)

\* the rows of raw_data that reach the IQR loop of clean_data
Eligible ==
    SelectSeq(CoercedRows(raw_data), LAMBDA r :
        InBounds(r) /\ \A k \in PositiveCols : IsNum(r[k]))

\* C5: the rows IQR rejection keeps over [BRIGHTNESS, SCAN, TRACK] are
\* exactly those of the reference sequential computation, in which each
\* column's Q1 and Q3 are taken over the rows that survived the columns
\* before it.
C5_SequentialIQR ==
    /\ (Did("validate_numeric_columns") /\ Measured) =>
           ret.df.rows =
               Pick(CoercedRows(arg),
                    RefSurvivors(CoercedRows(arg), CriticalCols, 3, TRUE))
    /\ Cleaned =>
           SameBag([i \in 1..len(processed_data) |-> Source(processed_data.rows[i])],
                   Pick(Eligible, RefSurvivors(Eligible, CriticalCols, 3, FALSE)))

\* clean_data dropped a row that lies within the bounds of every column
\* taken over the population before the loop
C5_Witness ==
    /\ Cleaned
    /\ \E i \in 1..Len(Eligible) :
           /\ \A k \in 1..3 :
                  RefWithin(Eligible, 1..Len(Eligible), CriticalCols[k], i)
           /\ i \notin RefSurvivors(Eligible, CriticalCols, 3, FALSE)

\* C6 as stated: outlier rejection run again on its own output removes no
\* row.
C6_Idempotent ==
    (trail = <<"validate_numeric_columns">> /\ Did("validate_numeric_columns"))
        => len(ret.df) = len(arg)

\* C6, amended: on a table of at most 4 rows, outlier rejection run again
\* on its own output removes no row.
C6_IdempotentUpTo4 ==
    len(raw_data) <= 4 =>
        /\ (trail = <<"validate_numeric_columns">> /\ Did("validate_numeric_columns"))
               => len(ret.df) = len(arg)
        /\ Cleaned => len(IQRLoop(processed_data, CriticalCols)) = len(processed_data)

\* validate_numeric_columns ran again on what it had left of 4 valid rows
\* after rejecting an outlier
C6_Witness ==
    /\ trail = <<"validate_numeric_columns">>
    /\ Did("validate_numeric_columns")
    /\ len(raw_data) = 4
    /\ len(arg) = 3
    /\ \A r \in Rows(raw_data) : \A k \in PositiveCols : Gt(r[k], 0)

\* C7: the counters of column c count the rows dropped by c's own checks,
\* among the rows that reached c.
C7_OwnCounters ==
    (Did("validate_numeric_columns") /\ Measured) =>
        LET rows == CoercedRows(arg)
        IN  \A k \in 1..3 :
                LET c == CriticalCols[k]
                    reached == RefSurvivors(rows, CriticalCols, k - 1, TRUE)
                    usable == RefUsable(rows, reached, c, TRUE)
                    kept == RefSurvivors(rows, CriticalCols, k, TRUE)
                IN  /\ ret.stats[c].missing_values =
                           Cardinality({i \in reached : rows[i][c].kind # "num"})
                    /\ ret.stats[c].negative_values =
                           Cardinality({i \in reached :
                               rows[i][c].kind = "num" /\ rows[i][c].val <= 0})
                    /\ ret.stats[c].outliers = Cardinality(usable \ kept)

\* C8: validate_coordinates and validate_dates account for every input row
\* once: original_rows = missing + out of bounds + returned, with missing the
\* rows lacking a coordinate and out of bounds the rows with both present
\* and outside the rectangle; original_rows = invalid + future + returned,
\* with invalid the unparseable rows and future the rows dated after now.
C8_Accounting ==
    /\ Did("validate_coordinates") =>
           /\ ret.stats.original_rows = len(arg)
           /\ ret.stats.original_rows =
                  ret.stats.missing_coordinates + ret.stats.out_of_bounds + len(ret.df)
           /\ ret.stats.missing_coordinates =
                  Cardinality({i \in 1..len(arg) :
                      arg.rows[i].LATITUDE.kind = "nan"
                          \/ arg.rows[i].LONGITUDE.kind = "nan"})
           /\ ret.stats.out_of_bounds =
                  Cardinality({i \in 1..len(arg) :
                      /\ arg.rows[i].LATITUDE.kind = "num"
                      /\ arg.rows[i].LONGITUDE.kind = "num"
                      /\ \/ arg.rows[i].LATITUDE.val < 25
                         \/ arg.rows[i].LATITUDE.val > 70
                         \/ arg.rows[i].LONGITUDE.val < -170
                         \/ arg.rows[i].LONGITUDE.val > -50})
    /\ Did("validate_dates") =>
           /\ ret.stats.original_rows = len(arg)
           /\ ret.stats.original_rows =
                  ret.stats.invalid_dates + ret.stats.future_dates + len(ret.df)
           /\ ret.stats.invalid_dates =
                  Cardinality({i \in 1..len(arg) : arg.rows[i].ACQ_DATE.kind # "date"})
           /\ ret.stats.future_dates =
                  Cardinality({i \in 1..len(arg) :
                      /\ arg.rows[i].ACQ_DATE.kind = "date"
                      /\ ~DateLe(arg.rows[i].ACQ_DATE.val, Now)})

\* validate_coordinates dropped a row without a coordinate and a row outside
\* the rectangle, and returned a row
C8_Witness ==
    /\ Did("validate_coordinates")
    /\ ret.stats.missing_coordinates >= 1
    /\ ret.stats.out_of_bounds >= 1
    /\ len(ret.df) >= 1

----------------------------------------------------------------------------
(* Claims on PreprocessSpec. *)

\* cleaning rejects row r of a CSV file on its own account
RowRejected(r) ==
    \/ ~between(to_numeric(r.latitude), -90, 90)
    \/ ~between(to_numeric(r.longitude), -180, 180)
    \/ ~(r.acq_date.kind = "date" /\ DateLe(r.acq_date.val, Now))
    \/ ~IsNum(to_numeric(r.brightness))

\* the directory holds files, all of them readable, and cleaning rejects
\* every row of every one
AllRowsRejected ==
    /\ files # <<>>
    /\ \A i \in 1..Len(files) :
           /\ files[i] # Unreadable
           /\ files[i].columns = CsvCols
           /\ len(files[i]) > 0
           /\ \A r \in Rows(files[i]) : RowRejected(r)

\* C10: when cleaning rejects every row of every input file, process_data
\* raises nothing and records no file as an error.
C10_EmptyIsNotAnError ==
    (pre_ret # None /\ AllRowsRejected) =>
        pre_ret.exc = "none" /\ stats.errors = <<>>

----------------------------------------------------------------------------
(* Claims about the cleaning engine on incomplete tables, under CleanSpec. *)

\* the mandatory columns the table lacks
Missing == {c \in Range(RequiredCols) : c \notin raw_data.columns}

\* C11: on a table that lacks a mandatory column validate_required_columns
\* fails naming every missing column and validate_numeric_columns returns no
\* cleaned dataset.
C11_MissingColumnIsFatal ==
    Missing # {} =>
        /\ Did("validate_required_columns") =>
               ~ret.ok /\ Range(ret.missing) = Missing
        /\ (ret # None /\ ret.fn = "validate_numeric_columns") => ret.exc # "none"

----------------------------------------------------------------------------
(* Claims about region assignment, checked under Spec. *)

\* C14: after clean_data every record carries a region label, the id of
\* its region or 'Unknown'; no record has a missing state.
C14_EveryRecordLabelled ==
    Cleaned => \A r \in Rows(processed_data) : r.state.kind = "label"

----------------------------------------------------------------------------
(* Claims about wildfires/visualizer.py, checked under VisSpec. *)

\* create_visualization has aggregated the cleaned records
Aggregated == vis # None /\ processed_data # None

\* the granularity of a cleaned record and of an aggregate
RecordKey(r) ==
    <<r.datetime.val[1], SeasonOf(r.datetime.val[2]), Bin(r.LATITUDE.val),
      Bin(r.LONGITUDE.val)>>

AggKey(a) == <<a.year.val, a.season.val, a.LATITUDE_BIN.val, a.LONGITUDE_BIN.val>>

\* the positions of the cleaned records that satisfy P
Records(P(_)) == {i \in 1..len(processed_data) : P(processed_data.rows[i])}

\* the sum of column c over the rows at the positions I
RECURSIVE Total(_, _, _)
Total(rows, I, c) ==
    IF I = {} THEN 0
    ELSE LET i == CHOOSE j \in I : TRUE
         IN  rows[i][c].val + Total(rows, I \ {i}, c)

\* C12: every cleaned record contributes to exactly one (year, season,
\* LATITUDE_BIN, LONGITUDE_BIN) aggregate: each aggregate counts and sums
\* the records of its key, fire_count summed over the aggregates is the
\* number of cleaned records and their summed fire_area is the total
\* fire_area of the cleaned records.
C12_Partition ==
    Aggregated =>
        /\ \A i \in 1..len(processed_data) :
               Cardinality({k \in 1..Len(vis.seasonal_data) :
                   AggKey(vis.seasonal_data[k]) = RecordKey(processed_data.rows[i])}) = 1
        /\ \A k \in 1..Len(vis.seasonal_data) :
               LET mine == Records(LAMBDA r : RecordKey(r) = AggKey(vis.seasonal_data[k]))
               IN  /\ mine # {}
                   /\ vis.seasonal_data[k].fire_count.val = Cardinality(mine)
                   /\ vis.seasonal_data[k].fire_area.val =
                          Total(processed_data.rows, mine, "fire_area")
        /\ Total(vis.seasonal_data, 1..Len(vis.seasonal_data), "fire_count")
              = len(processed_data)
        /\ Total(vis.seasonal_data, 1..Len(vis.seasonal_data), "fire_area")
              = Total(processed_data.rows, 1..len(processed_data), "fire_area")

\* several aggregates, one of them of several records of different area
C12_Witness ==
    /\ Aggregated
    /\ Len(vis.seasonal_data) >= 2
    /\ \E k \in 1..Len(vis.seasonal_data) :
           /\ vis.seasonal_data[k].fire_count.val >= 2
           /\ vis.seasonal_data[k].fire_area.val = 5

\* C13: the state summary has one entry per region label, with the summed
\* fire_area and the number of all cleaned records carrying the label, and
\* it covers the full cleaned population: fire_count summed over the
\* regions is the number of cleaned records.
C13_StateSummaryCoversAll ==
    Aggregated =>
        /\ \A k \in 1..Len(vis.state_data) :
               LET mine == Records(LAMBDA r : r.state = vis.state_data[k].state)
               IN  /\ vis.state_data[k].fire_count.val = Cardinality(mine)
                   /\ vis.state_data[k].fire_area.val =
                          Total(processed_data.rows, mine, "fire_area")
        /\ \A j, k \in 1..Len(vis.state_data) :
               vis.state_data[j].state = vis.state_data[k].state => j = k
        /\ Total(vis.state_data, 1..Len(vis.state_data), "fire_count")
              = len(processed_data)

\* the records of aggregate a that carry the region label l
Carrying(a, l) == Records(LAMBDA r : RecordKey(r) = AggKey(a) /\ r.state = l)

\* C15: every aggregate carries the most common region label among its
\* contributing records: no other label is carried by more of them.
C15_MostCommonLabel ==
    Aggregated =>
        \A k \in 1..Len(vis.seasonal_data) :
            \A i \in Records(LAMBDA r : RecordKey(r) = AggKey(vis.seasonal_data[k])
                                         /\ r.state.kind = "label") :
                Cardinality(Carrying(vis.seasonal_data[k], processed_data.rows[i].state))
                    <= Cardinality(Carrying(vis.seasonal_data[k],
                                            vis.seasonal_data[k].state))

\* the features of the frame f
FeaturesOf(f) ==
    SelectSeq(vis.features, LAMBDA x :
        \E i \in 1..Len(f.group) :
            x.year = f.group[i].year.val /\ x.season = f.group[i].season.val)

\* C16: a (year, season) group never gets more features than it holds nor
\* more than max_points_per_frame; a group of at most max_points_per_frame
\* records is emitted unchanged; the features of a sampled group are
\* distinct records of that group.
C16_SamplingNeverAdds ==
    (Aggregated /\ vis.exc = "none") =>
        \A k \in 1..Len(vis.frames) :
            LET f == vis.frames[k]
            IN  /\ Len(FeaturesOf(f)) = Len(f.emitted)
                /\ Len(f.emitted) <= Len(f.group)
                /\ Len(f.emitted) <= MaxPointsPerFrame
                /\ Len(f.group) <= MaxPointsPerFrame => f.emitted = f.group
                /\ \A i \in 1..Len(f.emitted) :
                       /\ \E j \in 1..Len(f.group) : f.emitted[i] = f.group[j]
                       /\ \A j \in 1..Len(f.emitted) :
                              f.emitted[i] = f.emitted[j] => i = j

\* a group above the cap was sampled next to a group emitted unchanged
C16_Witness ==
    /\ Aggregated
    /\ vis.exc = "none"
    /\ \E k \in 1..Len(vis.frames) :
           vis.frames[k].sampled /\ Len(vis.frames[k].emitted) = MaxPointsPerFrame
    /\ \E k \in 1..Len(vis.frames) :
           ~vis.frames[k].sampled /\ Len(vis.frames[k].emitted) >= 1

\* round(n * 0.2): halves go to the even neighbour
RoundFifth(n) ==
    LET q == (2 * n) \div 10
        r == (2 * n) % 10
    IN  IF r < 5 THEN q ELSE IF r > 5 THEN q + 1 ELSE IF q % 2 = 0 THEN q ELSE q + 1

\* C17: a group of n > cap records gets exactly
\* min(cap, max(1, round(n * 0.2))) features.
C17_SampleSize ==
    (Aggregated /\ vis.exc = "none") =>
        \A k \in 1..Len(vis.frames) :
            Len(vis.frames[k].group) > MaxPointsPerFrame =>
                Len(vis.frames[k].emitted) =
                    Min(MaxPointsPerFrame, Max(1, RoundFifth(Len(vis.frames[k].group))))

----------------------------------------------------------------------------
(* Claims about the samplers, checked under SampleSpec, and about the colour
   and the radius, checked under FunctionSpec. *)

\* the function fn has been applied to the input
Applied(fn) == ret # None /\ ret.fn = fn

\* C18: sampling is reproducible: two runs of one sampler over the same
\* group with the same seed select exactly the same records, for the
\* weighted sample of wildfires/visualizer.py and for smart_sample.
C18_Reproducible ==
    \A i, j \in 1..Len(trail) :
        trail[i].fn = trail[j].fn =>
            trail[i].exc = trail[j].exc /\ trail[i].rows = trail[j].rows

\* C19: the clipped normalized intensity v lies in [0, 1] and maps to one
\* colour: low when v < 0.33, medium when 0.33 <= v < 0.66, high when
\* v >= 0.66; between the bounds 0 and 1 the intensity x is its own
\* normalized value, so 0.33 goes to medium, 0.66 to high and the values
\* just below them to low and medium.
C19_ColourClasses ==
    Applied("create_fire_feature") =>
        /\ 0 <= ret.v.num /\ ret.v.num <= ret.v.den
        /\ ret.color = "low_intensity" <=> 100 * ret.v.num < 33 * ret.v.den
        /\ ret.color = "medium_intensity" <=>
               (33 * ret.v.den <= 100 * ret.v.num /\ 100 * ret.v.num < 66 * ret.v.den)
        /\ ret.color = "high_intensity" <=> 66 * ret.v.den <= 100 * ret.v.num
        /\ (arg.row.intensity.kind = "z" /\ arg.imin = Z(0, 1) /\ arg.imax = Z(1, 1)) =>
               /\ arg.row.intensity.val < 3300 => ret.color = "low_intensity"
               /\ (3300 <= arg.row.intensity.val /\ arg.row.intensity.val < 6600) =>
                      ret.color = "medium_intensity"
               /\ 6600 <= arg.row.intensity.val => ret.color = "high_intensity"

\* the intensity 0.33 between the bounds 0 and 1 got the medium colour
C19_Witness ==
    /\ Applied("create_fire_feature")
    /\ arg.row.intensity = Z(3300, 10000)
    /\ arg.imin = Z(0, 1) /\ arg.imax = Z(1, 1)
    /\ ret.color = "medium_intensity"

\* a <= b for two areas m * 100^e with m <= 21
AreaLe(a, b) ==
    IF a.m = 0 THEN TRUE
    ELSE IF b.m = 0 THEN FALSE
    ELSE IF a.e = b.e THEN a.m <= b.m
    ELSE a.e < b.e

\* C20: the radius is non-decreasing in the area for a fixed latitude and
\* zoom and lies in [min_radius, max_radius]; radius(0.0001, 45, 4) is
\* min_radius and radius(1e9, 45, 4) is max_radius.
C20_RadiusMonotoneClipped ==
    Applied("calculate_pixel_radius") =>
        /\ \A i \in 1..2 : min_radius * 1000 <= ret.radius[i] /\ ret.radius[i] <= max_radius * 1000
        /\ AreaLe(arg.areas[1], arg.areas[2]) => ret.radius[1] <= ret.radius[2]
        /\ (arg.latitude = 4500 /\ arg.zoom = 4) =>
               /\ arg.areas[1] = Area(1, -2) => ret.radius[1] = min_radius * 1000
               /\ arg.areas[2] = Area(10, 4) => ret.radius[2] = max_radius * 1000

\* the two radii of the claim, and a pair of radii between the limits
C20_Witness ==
    /\ Applied("calculate_pixel_radius")
    /\ arg.areas = <<Area(1, -2), Area(10, 4)>>
    /\ arg.latitude = 4500 /\ arg.zoom = 4
    /\ ret.radius = <<min_radius * 1000, max_radius * 1000>>

----------------------------------------------------------------------------
(* Further claims about DataManager.clean_data, checked under Spec. *)

\* C30: every record of a non-empty cleaned population has a defined, finite
\* intensity, a population of one record and one of equal brightness values
\* included.
C30_IntensityDefined ==
    Cleaned => \A r \in Rows(processed_data) : r.intensity.kind = "z"

----------------------------------------------------------------------------
(* Further claims about wildfires/visualizer.py, checked under VisSpec. *)

\* the aggregates of one (year, season) pair are more than the cap
OverCap ==
    \E a \in Rows([rows |-> vis.seasonal_data]) :
        Cardinality({k \in 1..Len(vis.seasonal_data) :
            /\ vis.seasonal_data[k].year = a.year
            /\ vis.seasonal_data[k].season = a.season}) > MaxPointsPerFrame

\* C28: whenever a (year, season) group is larger than the cap, the sampling
\* step completes, whatever the weights are, and every such group gets
\* exactly cap features.
C28_SamplingCompletes ==
    (Aggregated /\ OverCap) =>
        /\ vis.exc = "none"
        /\ \A k \in 1..Len(vis.frames) :
               vis.frames[k].sampled =>
                   Len(vis.frames[k].emitted) = MaxPointsPerFrame

\* the first day of the third month after the first day d of a month
ThreeMonthsOn(d) ==
    IF d[2] + 3 > 12 THEN <<d[1] + 1, d[2] + 3 - 12, 1>> ELSE <<d[1], d[2] + 3, 1>>

\* a is earlier than b
DateLt(a, b) == a # b /\ DateLe(a, b)

\* C26: the period_start of a record's aggregate is the first day of a
\* three-month interval that holds the record's own date:
\* period_start <= datetime < period_start + 3 months, in every month.
C26_PeriodHoldsDate ==
    Aggregated =>
        \A i \in 1..len(processed_data) :
            \A k \in 1..Len(vis.seasonal_data) :
                AggKey(vis.seasonal_data[k]) = RecordKey(processed_data.rows[i]) =>
                    /\ DateLe(vis.seasonal_data[k].period_start.val,
                              processed_data.rows[i].datetime.val)
                    /\ DateLt(processed_data.rows[i].datetime.val,
                              ThreeMonthsOn(vis.seasonal_data[k].period_start.val))

----------------------------------------------------------------------------
(* Further claims about FireDataPreprocessor, checked under PreprocessSpec. *)

\* C22: every call of process_data over the same files returns the dataset
\* and leaves the totals (total_files_processed, total_records, errors) of
\* a single call on a new object.
C22_RunsIndependent ==
    pre_ret # None =>
        \E once \in {process_data(files, NewStats, None, numpy_raises)} :
            /\ pre_ret.exc = once.exc
            /\ pre_ret.df = once.df
            /\ stats = once.stats

\* the Monday of the week of date d, in days
WeekStart(d) == Ordinal(d) - Weekday(d) + 1

\* C27: two records with the same weekly_period key have dates in the same
\* ISO week, Monday to Sunday.
C27_WeeklyKeyIsOneWeek ==
    (pre_ret # None /\ pre_ret.exc = "none") =>
        \A r1, r2 \in Rows(pre_ret.df) :
            r1.weekly_period = r2.weekly_period =>
                WeekStart(r1.datetime.val) = WeekStart(r2.datetime.val)

----------------------------------------------------------------------------
(* Further claims checked under FunctionSpec. *)

\* the canonical name of a field's source name; other columns keep theirs
Canonical(c) ==
    CASE c \in {"latitude", "LATITUDE"} -> "latitude"
      [] c \in {"brightness", "BRIGHTNESS"} -> "brightness"
      [] c \in {"scan", "SCAN"} -> "scan"
      [] c \in {"track", "TRACK"} -> "track"
      [] c \in {"acq_date", "ACQ_DATE"} -> "date"
      [] c \in {"frp", "FRP"} -> "fire_radiative_power"
      [] OTHER -> c

\* C24: standardize_columns is a pure rename: the column of every source
\* name, in lower or upper case, comes out under the canonical name, other
\* columns keep their name, and the rows and every cell value are unchanged.
C24_PureRename ==
    Applied("standardize_columns") =>
        /\ ret.df.columns = {Canonical(c) : c \in arg.df.columns}
        /\ len(ret.df) = len(arg.df)
        /\ \A i \in 1..len(arg.df) : \A c \in arg.df.columns :
               /\ Canonical(c) \in DOMAIN ret.df.rows[i]
               /\ ret.df.rows[i][Canonical(c)] = arg.df.rows[i][c]

----------------------------------------------------------------------------
(* Further claims about the validators, checked under CleanSpec. *)

\* C23: no stage changes a table owned by another stage: after
\* validate_dates or validate_numeric_columns the table the caller passed in
\* has the columns and the values it had before the call, and clean_data
\* leaves raw_data as it was.
C23_CallerTableUnchanged ==
    /\ (ret # None /\ ret.fn \in {"validate_dates", "validate_numeric_columns"}) =>
           arg = raw_data
    /\ dm_exc = "none" /\ processed_data # None => raw_data \in InputTables \cup IncompleteTables

----------------------------------------------------------------------------
(* DataManager: the calls of one object in any order *)

\* the rank of a season label in the order of groupby's sorted keys
SeasonRank(s) ==
    CASE s = "Fall" -> 1
      [] s = "Spring" -> 2
      [] s = "Summer" -> 3
      [] OTHER -> 4

\* the (year, season) keys of a set, sorted as groupby sorts them
RECURSIVE SortSeasons(_)
SortSeasons(K) ==
    IF K = {} THEN <<>>
    ELSE LET k == CHOOSE a \in K : \A b \in K :
                      \/ a[1] < b[1]
                      \/ a[1] = b[1] /\ SeasonRank(a[2]) <= SeasonRank(b[2])
         IN  <<k>> \o SortSeasons(K \ {k})

\* round(sum / n, 2) in hundredths; n > 0
Round2(sum, n) == (200 * sum + n) \div (2 * n)

\* GroupBy.mean of a numeric column, rounded to two decimals, in hundredths
mean2(rows, c) ==
    With(Values(Table({c}, rows), c), LAMBDA v :
        IF v = <<>> THEN NaN ELSE Num(Round2(Sum(v), Len(v))))

\* GroupBy.max of a numeric column
max(rows, c) ==
    With(Values(Table({c}, rows), c), LAMBDA v :
        IF v = <<>> THEN NaN
        ELSE Num(CHOOSE m \in Range(v) : \A x \in Range(v) : x <= m))

\* GroupBy.max of intensity: the records of one table share ss and n, so the
\* largest intensity is that of the largest dev
max_intensity(rows) ==
    With(SelectSeq(rows, LAMBDA r : r.intensity.kind = "z"), LAMBDA z :
        IF z = <<>> THEN NaN
        ELSE (CHOOSE r \in Range(z) : \A q \in Range(z) : q.intensity.val <= r.intensity.val).intensity)

\* DataManager.get_seasonal_aggregation: [exc, val]; the means of BRIGHTNESS
\* and fire_area are in hundredths, the aggregates of intensity are kept as
\* exact z-scores
get_seasonal_aggregation(pd) ==
    IF pd = None THEN [exc |-> "ValueError", val |-> None]
    ELSE
    With(SortSeasons({<<r.year.val, r.season.val>> : r \in Range(pd.rows)}), LAMBDA keys :
        [exc |-> "none",
         val |-> [k \in 1..Len(keys) |->
             With(SelectSeq(pd.rows, LAMBDA r : <<r.year.val, r.season.val>> = keys[k]),
                  LAMBDA rows :
                 [year |-> Num(keys[k][1]), season |-> Label(keys[k][2]),
                  BRIGHTNESS_mean |-> mean2(rows, "BRIGHTNESS"),
                  BRIGHTNESS_max |-> max(rows, "BRIGHTNESS"),
                  BRIGHTNESS_count |-> Num(count(rows, "BRIGHTNESS")),
                  fire_area_sum |-> Num(sum_area(rows)),
                  fire_area_mean |-> mean2(rows, "fire_area"),
                  intensity_mean |-> mean_intensity(rows),
                  intensity_max |-> max_intensity(rows)])]])

\* DataManager.save_processed_data without its guard
save_processed_data_unguarded(pd, d) ==
    [exc |-> "none", disk |-> [d EXCEPT !.processed_cache = pd]]

\* DataManager.save_processed_data: [exc, disk]
save_processed_data(pd, d) ==
    IF pd = None THEN [exc |-> "ValueError", disk |-> d]
    ELSE [exc |-> "none", disk |-> [d EXCEPT !.processed_cache = pd]]

\* a valid record, one whose date is no date, one of another season and one
\* of another track
OrderCat == <<Good(1, 1, 1), DateCat[2], DateCat[5], MeasureCat[10]>>

\* the shapefiles of the data directory
OrderFiles == TablesOver(OrderCat, MaxRows - 3)

\* the processed data an earlier run can have left in the cache
OrderCaches ==
    {clean_data(t, Label("loaded")).df :
         t \in TablesOver(<<Good(1, 1, 1), DateCat[5]>>, MaxRows - 3)}

\* a new DataManager over a data directory and a cache directory; trail is
\* the calls that have set raw_data or processed_data so far
OrderInit ==
    /\ \E t \in OrderFiles \cup {None}, c \in OrderCaches \cup {None} :
           disk = [shapefiles |-> t, raw_cache |-> None, processed_cache |-> c]
    /\ raw_data = None
    /\ processed_data = None
    /\ states_gdf \in {None, Label("loaded")}
    /\ dm_exc = "none"
    /\ arg = None
    /\ ret = None
    /\ trail = <<>>
    /\ fv_data = None
    /\ InitPre

\* the outcome of a call and, when it set an attribute, its name in trail
Outcome(fn, exc, val, set) ==
    /\ ret' = [fn |-> fn, exc |-> exc, val |-> val]
    /\ dm_exc' = exc
    /\ trail' = IF set /\ fn \notin Range(trail) THEN Append(trail, fn) ELSE trail
    /\ UNCHANGED <<states_gdf, arg, fv_data, files, stats, pre_ret, numpy_raises,
                   vis, rng42,
                   nifc, fvis, threads>>

\* DataManager.load_raw_data(force_reload)
Call_load_raw_data(force_reload) ==
    /\ IF ~force_reload /\ disk.raw_cache # None
       THEN /\ raw_data' = disk.raw_cache
            /\ UNCHANGED disk
            /\ Outcome("load_raw_data", "none", None, TRUE)
       ELSE IF disk.shapefiles = None
       THEN /\ UNCHANGED <<raw_data, disk>>
            /\ Outcome("load_raw_data", "FileNotFoundError", None, FALSE)
       ELSE /\ raw_data' = disk.shapefiles
            /\ disk' = [disk EXCEPT !.raw_cache = disk.shapefiles]
            /\ Outcome("load_raw_data", "none", None, TRUE)
    /\ UNCHANGED processed_data

\* DataManager.clean_data()
Call_clean_data ==
    \E r \in {clean_data(raw_data, states_gdf)} :
        /\ processed_data' = IF r.exc = "none" THEN r.df ELSE processed_data
        /\ Outcome("clean_data", r.exc, None, r.exc = "none")
        /\ UNCHANGED <<disk, raw_data>>

\* DataManager.get_seasonal_aggregation()
Call_get_seasonal_aggregation ==
    \E r \in {get_seasonal_aggregation(processed_data)} :
        /\ Outcome("get_seasonal_aggregation", r.exc, r.val, FALSE)
        /\ UNCHANGED <<disk, raw_data, processed_data>>

\* DataManager.get_time_series()
Call_get_time_series ==
    /\ IF processed_data = None
       THEN Outcome("get_time_series", "ValueError", None, FALSE)
       ELSE Outcome("get_time_series", "none", get_time_series(processed_data), FALSE)
    /\ UNCHANGED <<disk, raw_data, processed_data>>

\* DataManager.save_processed_data()
Call_save_processed_data ==
    \E r \in {save_processed_data(processed_data, disk)} :
        /\ disk' = r.disk
        /\ Outcome("save_processed_data", r.exc, None, FALSE)
        /\ UNCHANGED <<raw_data, processed_data>>

\* DataManager.load_processed_data()
Call_load_processed_data ==
    /\ IF disk.processed_cache # None
       THEN /\ processed_data' = disk.processed_cache
            /\ Outcome("load_processed_data", "none", disk.processed_cache, TRUE)
       ELSE /\ UNCHANGED processed_data
            /\ Outcome("load_processed_data", "none", None, FALSE)
    /\ UNCHANGED <<disk, raw_data>>

OrderNext ==
    \/ \E force_reload \in BOOLEAN : Call_load_raw_data(force_reload)
    \/ Call_clean_data
    \/ Call_get_seasonal_aggregation
    \/ Call_get_time_series
    \/ Call_save_processed_data
    \/ Call_load_processed_data

OrderSpec == OrderInit /\ [][OrderNext]_vars

(* Claims about the order of the DataManager calls, checked under OrderSpec. *)

\* the call of this step raised ValueError and left the object and the disk
\* as they were
Refused ==
    /\ ret'.exc = "ValueError"
    /\ UNCHANGED <<disk, raw_data, processed_data, states_gdf>>

\* C25: in every sequence of DataManager calls, clean_data raises ValueError
\* and changes no state unless an earlier load_raw_data has set raw_data;
\* get_seasonal_aggregation, get_time_series and save_processed_data raise
\* ValueError and change no state unless an earlier clean_data or
\* load_processed_data has set processed_data; a load_processed_data that
\* finds no cache returns None and leaves processed_data as it was.
C25_CallOrder ==
    [][/\ (ret'.fn = "clean_data" /\ "load_raw_data" \notin Range(trail)) => Refused
       /\ (/\ ret'.fn \in {"get_seasonal_aggregation", "get_time_series",
                           "save_processed_data"}
           /\ "clean_data" \notin Range(trail)
           /\ "load_processed_data" \notin Range(trail)) => Refused
       /\ (ret'.fn = "load_processed_data" /\ disk.processed_cache = None) =>
              /\ ret'.exc = "none"
              /\ ret'.val = None
              /\ processed_data' = processed_data]_vars

\* save_processed_data was refused on an object whose raw_data is loaded and
\* that has no processed_data yet
C25_Witness ==
    /\ ret # None
    /\ ret.fn = "save_processed_data"
    /\ ret.exc = "ValueError"
    /\ raw_data # None
    /\ Range(trail) = {"load_raw_data"}
    /\ disk.processed_cache = None

----------------------------------------------------------------------------
(* vis.py: NIFCDataConnector.get_historic_fires *)

\* the most records the server holds
MaxRecords == 6

\* resultRecordCount, 2000 in _make_request and in the test that ends the
\* loop, and the size of a batch that is saved as a checkpoint, 10000: the
\* server of the model holds a few records and both are scaled down with it
PageSize == 2
CheckpointRecords == 4

\* the default start_year and end_year
FirstYear == 2000
LastYear == 2005

\* the feature service: a count-only query is answered with the count, any
\* other query with the page of at most resultRecordCount records from
\* resultOffset on, record i being the i-th in the order of the query;
\* with_count is whether a page carries a count as well
Serve(request, records, with_count) ==
    IF request.returnCountOnly = "true"
    THEN [has_count |-> TRUE, count |-> records, has_features |-> FALSE,
          features |-> <<>>]
    ELSE [has_count |-> with_count, count |-> records, has_features |-> TRUE,
          features |-> [i \in 1..Max(0, Min(request.resultRecordCount,
                                            records - request.resultOffset)) |->
                           request.resultOffset + i]]

\* NIFCDataConnector._make_request when the request succeeds: params.update
\* changes the caller's dictionary, which is what is sent
make_request(params, records, with_count) ==
    With([params EXCEPT !.returnCountOnly = "false", !.resultRecordCount = PageSize],
         LAMBDA sent :
        [params |-> sent, response |-> Serve(sent, records, with_count)])

\* NIFCDataConnector._save_final_data: pd.DataFrame(data) of the features,
\* each a dictionary with the one key 'attributes'
save_final_data(data) == [columns |-> {"attributes"}, rows |-> data]

FetchInit ==
    /\ \E n \in 1..MaxRecords, c \in BOOLEAN, start_year \in FirstYear..LastYear,
          end_year \in FirstYear..LastYear :
           /\ start_year <= end_year
           /\ nifc = [pc |-> "count", records |-> n, with_count |-> c,
                      params |-> [where |-> <<start_year, end_year>>,
                                  resultOffset |-> 0, returnCountOnly |-> "unset",
                                  resultRecordCount |-> 0],
                      sent |-> <<>>, total_records |-> None, batch_data |-> <<>>,
                      all_data |-> <<>>, exc |-> "none", ret |-> None]
    /\ arg = None
    /\ rng42 = <<>>
    /\ ret = None
    /\ trail = <<>>
    /\ disk = [checkpoint |-> None]
    /\ processed_data = None
    /\ raw_data = None
    /\ states_gdf = None
    /\ dm_exc = "none"
    /\ fv_data = None
    /\ files = <<>>
    /\ stats = None
    /\ pre_ret = None
    /\ numpy_raises = FALSE
    /\ vis = None
    /\ fvis = None
    /\ threads = None

\* get_historic_fires up to the answer to its count request, lines 65-104
NIFC_count_request ==
    /\ nifc.pc = "count"
    /\ \E r \in {make_request([nifc.params EXCEPT !.returnCountOnly = "true"],
                              nifc.records, nifc.with_count)} :
           nifc' = IF ~r.response.has_count
                   THEN [nifc EXCEPT !.sent = Append(@, r.params), !.pc = "done"]
                   ELSE [nifc EXCEPT !.sent = Append(@, r.params), !.pc = "page",
                                     !.total_records = r.response.count]
    /\ UNCHANGED <<disk, raw_data, processed_data, states_gdf, dm_exc, arg, ret, trail,
                   fv_data, files, stats, pre_ret, numpy_raises, vis, rng42,
                   fvis, threads>>

\* one round of the loop, lines 112-138; _save_checkpoint is handed a
\* DataFrame and tests it with "if data:", which raises ValueError
NIFC_page_request ==
    /\ nifc.pc = "page"
    /\ \E r \in {make_request(nifc.params, nifc.records, nifc.with_count)} :
       \E features \in {r.response.features} :
           nifc' =
               IF ~r.response.has_features \/ features = <<>>
               THEN [nifc EXCEPT !.params = r.params, !.sent = Append(@, r.params),
                                 !.pc = "finish"]
               ELSE IF Len(nifc.batch_data \o features) >= CheckpointRecords
               THEN [nifc EXCEPT !.params = r.params, !.sent = Append(@, r.params),
                                 !.batch_data = @ \o features,
                                 !.exc = "ValueError", !.pc = "done"]
               ELSE [nifc EXCEPT !.params = [r.params EXCEPT !.resultOffset =
                                                @ + Len(features)],
                                 !.sent = Append(@, r.params),
                                 !.batch_data = @ \o features,
                                 !.pc = IF Len(features) < PageSize
                                        THEN "finish" ELSE "page"]
    /\ UNCHANGED <<disk, raw_data, processed_data, states_gdf, dm_exc, arg, ret, trail,
                   fv_data, files, stats, pre_ret, numpy_raises, vis, rng42,
                   fvis, threads>>

\* get_historic_fires after the loop, lines 140-152
NIFC_finish ==
    /\ nifc.pc = "finish"
    /\ \E all_data \in {nifc.all_data \o nifc.batch_data} :
           nifc' = [nifc EXCEPT !.all_data = all_data, !.pc = "done",
                                !.ret = IF all_data = <<>> THEN None
                                        ELSE save_final_data(all_data)]
    /\ UNCHANGED <<disk, raw_data, processed_data, states_gdf, dm_exc, arg, ret, trail,
                   fv_data, files, stats, pre_ret, numpy_raises, vis, rng42,
                   fvis, threads>>

FetchNext ==
    \/ NIFC_count_request
    \/ NIFC_page_request
    \/ NIFC_finish

FetchSpec == FetchInit /\ [][FetchNext]_vars

(* Claims about get_historic_fires, checked under FetchSpec. *)

\* C29: get_historic_fires first sends a count-only request; when the server
\* holds N >= 1 records and serves them in pages of at most the page size,
\* every page request carries the number of records fetched so far as its
\* resultOffset, and the call ends having returned the N records, each once
\* and in served order, also when N reaches the size of a checkpoint.
C29_PagesServeAll ==
    /\ Len(nifc.sent) >= 1 => nifc.sent[1].returnCountOnly = "true"
    /\ \A k \in 2..Len(nifc.sent) :
           nifc.sent[k].resultOffset = Min((k - 2) * PageSize, nifc.records)
    /\ nifc.pc = "done" =>
           /\ nifc.exc = "none"
           /\ nifc.ret # None
           /\ nifc.ret.rows = [i \in 1..nifc.records |-> i]

----------------------------------------------------------------------------
(* wildfires/visualizer.py: concurrent create_visualization calls *)

\* the processed data of the runs: the July and August records, in tables no
\* longer than the cap of a frame, so that the loop emits every aggregate
ConcTables ==
    {Derived(Table(VisCols, [i \in 1..Len(ix) |-> VisCat[ix[i] + 2]])) :
         ix \in {s \in NonDec(4, MaxPointsPerFrame) : s # <<>>}}

\* seasonal_data['fire_area'].min() and .max()
area_min(rows) ==
    IF rows = <<>> THEN NaN
    ELSE Num(CHOOSE a \in {rows[i].fire_area.val : i \in 1..Len(rows)} :
                 \A i \in 1..Len(rows) : a <= rows[i].fire_area.val)

area_max(rows) ==
    IF rows = <<>> THEN NaN
    ELSE Num(CHOOSE a \in {rows[i].fire_area.val : i \in 1..Len(rows)} :
                 \A i \in 1..Len(rows) : a >= rows[i].fire_area.val)

\* two calls, each over the processed data its data manager held when the
\* call read it, on one FireVisualizer or on two
ConcInit ==
    /\ \E d1, d2 \in ConcTables, o2 \in 1..2 :
           /\ d1 # d2
           /\ threads = <<[pc |-> "start", self |-> 1, data |-> d1, seasonal_data |-> <<>>,
                           pending |-> <<>>, features |-> <<>>],
                          [pc |-> "start", self |-> o2, data |-> d2, seasonal_data |-> <<>>,
                           pending |-> <<>>, features |-> <<>>]>>
    /\ fvis = [o \in 1..2 |-> [intensity_min |-> None, intensity_max |-> None,
                               area_min |-> None, area_max |-> None]]
    /\ nifc = None
    /\ arg = None
    /\ rng42 = <<>>
    /\ ret = None
    /\ trail = <<>>
    /\ disk = [processed_cache |-> None]
    /\ processed_data = None
    /\ raw_data = None
    /\ states_gdf = None
    /\ dm_exc = "none"
    /\ fv_data = None
    /\ files = <<>>
    /\ stats = None
    /\ pre_ret = None
    /\ numpy_raises = FALSE
    /\ vis = None

\* create_visualization of thread t up to line 286: the aggregates, which
\* are local, and the statistics, which are attributes of the object
WV_statistics(t) ==
    /\ threads[t].pc = "start"
    /\ \E agg \in {aggregate_by_location_and_season(
                       add_periods(get_time_series(threads[t].data)))} :
       \E keys \in {FrameKeys(agg.seasonal_data)} :
           /\ threads' = [threads EXCEPT
                  ![t].pc = "features",
                  ![t].seasonal_data = agg.seasonal_data,
                  ![t].pending = Flatten([k \in 1..Len(keys) |->
                      Frame(SelectSeq(agg.seasonal_data,
                                      LAMBDA r : <<r.year, r.season>> = keys[k]),
                            rng42).emitted])]
           /\ fvis' = [fvis EXCEPT ![threads[t].self] =
                  [intensity_min |-> intensity_min(agg.seasonal_data),
                   intensity_max |-> intensity_max(agg.seasonal_data),
                   area_min |-> area_min(agg.seasonal_data),
                   area_max |-> area_max(agg.seasonal_data)]]
    /\ UNCHANGED <<disk, raw_data, processed_data, states_gdf, dm_exc, arg, ret, trail,
                   fv_data, files, stats, pre_ret, numpy_raises, vis, rng42, nifc>>

\* one _create_fire_feature call of thread t: it reads the statistics of
\* its object as they are now
WV_feature(t) ==
    /\ threads[t].pc = "features"
    /\ Len(threads[t].features) < Len(threads[t].pending)
    /\ threads' = [threads EXCEPT ![t].features =
           Append(@, create_fire_feature(threads[t].pending[Len(@) + 1],
                                         fvis[threads[t].self].intensity_min,
                                         fvis[threads[t].self].intensity_max, 4))]
    /\ UNCHANGED <<disk, raw_data, processed_data, states_gdf, dm_exc, arg, ret, trail,
                   fv_data, files, stats, pre_ret, numpy_raises, vis, rng42, nifc, fvis>>

\* create_visualization of thread t after its loop, lines 305-331
WV_save(t) ==
    /\ threads[t].pc = "features"
    /\ Len(threads[t].features) = Len(threads[t].pending)
    /\ threads' = [threads EXCEPT ![t].pc = "done"]
    /\ UNCHANGED <<disk, raw_data, processed_data, states_gdf, dm_exc, arg, ret, trail,
                   fv_data, files, stats, pre_ret, numpy_raises, vis, rng42, nifc, fvis>>

ConcNext ==
    \E t \in 1..2 :
        \/ WV_statistics(t)
        \/ WV_feature(t)
        \/ WV_save(t)

ConcSpec == ConcInit /\ [][ConcNext]_vars

(* Claims about concurrent runs, checked under ConcSpec. *)

\* C21: the minimum and maximum of a batch are not shared between runs: in
\* every interleaving of two create_visualization calls over different
\* datasets, on one FireVisualizer or on two, every feature of a run is
\* normalised with the minimum and maximum of that run's own aggregates.
C21_OwnStatistics ==
    \A t \in 1..2 : \A k \in 1..Len(threads[t].features) :
        threads[t].features[k] =
            create_fire_feature(threads[t].pending[k],
                                intensity_min(threads[t].seasonal_data),
                                intensity_max(threads[t].seasonal_data), 4)
====
